---- MODULE Spec2Model ----
(***************************************************************************)
(* Measurement session of pkg/slo/instrumentv2 (Instrument.Start / End):   *)
(* two snapshots, per-definition deltas, the parallel policy for global    *)
(* metrics, and the hand-off of the SessionResult to the SummaryWriter.    *)
(*                                                                         *)
(* Spec      a session built over the default definition set, driven by    *)
(*           any sequence of Start and End calls (at most MaxCalls).       *)
(* SpecEval  a session built over any definition list and any policy,      *)
(*           used once: one Start, then one End.                           *)
(*                                                                         *)
(* The best-effort helpers of test/e2e that label a test's summary with     *)
(* success, skip or fail: instrument.Instrument, ADeltaInstrument and the   *)
(* snapshot block of the metrics test.                                     *)
(*                                                                         *)
(* SpecTest  one test driving one of the three helpers, by any sequence of *)
(*           calls (at most MaxTestCalls).                                 *)
(*                                                                         *)
(* ParsePrometheusText of test/e2e/harnessv2, the fetcher's parser.        *)
(*                                                                         *)
(* SpecParse one call of the parser, scanning any input of at most         *)
(*           MaxLines lines, line by line.                                 *)
(*                                                                         *)
(* The JSON file writers: instrumentv2.JSONFileWriter.Save and             *)
(* artifacts.JSONFileWriter.WriteJSON, step by step over a file system.    *)
(*                                                                         *)
(* SpecHarness  one test under the Ginkgo hooks of harnessv2.Attach, which *)
(*           start a session before the test and end it after.             *)
(*                                                                         *)
(* SpecRace  two calls of one of the file writers on one path, their      *)
(*           system calls interleaved in any order.                        *)
(*                                                                         *)
(* SpecMulti several sessions of instrumentv2 over one shared counter,     *)
(*           their Start and End calls interleaved in any order.           *)
(*                                                                         *)
(* SpecSave  at most MaxSaves calls, one after the other, each of which    *)
(*           any system call may fail and which may die between two steps. *)
(***************************************************************************)
EXTENDS Integers, Sequences, FiniteSets, TLC

\* ------------------------------------------------------------------ bounds
MaxVal == 1      \* metric values range over 0..MaxVal
MaxDefs == 2     \* length of the definition list handed to New (SpecEval)
MaxCalls == 3    \* Start/End calls made on one session (Spec)
MaxTestCalls == 3 \* calls a test makes on its helper (SpecTest)
MaxLines == 3    \* lines of the text handed to ParsePrometheusText (SpecParse)
MaxSaves == 2    \* calls of Save / WriteJSON (SpecSave)
MaxCount == 2    \* value the shared counter may reach (SpecMulti)
MaxMultiCalls == 4 \* Start/End calls made on the sessions together (SpecMulti)

\* ------------------------------------------------------- types (types.go)
ScopeGlobal == "global"
ScopeNamespaced == "namespaced"
MetricScope == {ScopeGlobal, ScopeNamespaced}

\* The default definition set (defs.go).
CommonMetricDefs ==
    <<[Name |-> "controller_runtime_reconcile_total", Scope |-> ScopeGlobal]>>

\* Series identities that may occur in a snapshot or a definition.
Names == {"controller_runtime_reconcile_total", "workqueue_depth"}
Vals == 0..MaxVal

\* A MetricMap is a Go map: nil, or a finite mapping (kv) from names to values.
\* Lookups on a nil map behave as on an empty one.
EmptyKV == [n \in {} |-> 0]
NilMetricMap == [nil |-> TRUE, kv |-> EmptyKV]
EmptyMetricMap == [nil |-> FALSE, kv |-> EmptyKV]
\* The maps whose keys are among N.
MetricMapOver(N) ==
    {NilMetricMap} \cup
    {[nil |-> FALSE, kv |-> f] : f \in UNION {[S -> Vals] : S \in SUBSET N}}
MetricMap == MetricMapOver(Names)

MetricDef == [Name : Names, Scope : MetricScope]

\* OnGlobalInParallel is a free-form string; "" is the unset value.
PolicyStrings == {"skip", "warn", "fail", "", "bogus"}
EvaluationPolicy == [AllowParallel : BOOLEAN, OnGlobalInParallel : PolicyStrings]

\* Sequences over S of length at most n.
SeqUpTo(S, n) == UNION {[1..k -> S] : k \in 0..n}

\* error values
NoErr == "nil"
ErrEndBeforeStart == "instrument: Start() must be called before End()"
FetchErr == "fetcher: scrape failed"
SaveErr == "writer: save failed"

\* time.Time zero value (never started)
ZeroTime == 0

\* "no SessionResult was built by the last call"
NoResult == [built |-> FALSE]

\* "the fetcher was not invoked by the last call"
NoFetch == [invoked |-> FALSE]

\* "writer.Save was not invoked by the last call"
NoSave == "not invoked"

VARIABLES
    labels,      \* Instrument.labels
    meta,        \* Instrument.meta
    writerSet,   \* Instrument.writer # nil
    defs,        \* Instrument.defs
    policy,      \* Instrument.policy
    startSnap,   \* Instrument.startSnap
    startAt,     \* Instrument.startAt
    clock,       \* last reading of time.Now()
    lastOp,      \* the call that returned last: "New", "Start", "End"
    lastErr,     \* its return value
    endSnap,     \* End's local endSnap (NilMetricMap when End did not fetch)
    res,         \* End's local res (NoResult when End built none)
    fetched,     \* what the fetcher returned to the last call (NoFetch: not invoked)
    fetches,     \* the calls that invoked the fetcher so far, in order
    okStarts,    \* number of Start calls that have returned nil
    okEnds,      \* number of End calls that have built a SessionResult
    saved,       \* the SessionResults handed to writer.Save, in order
    saveErr,     \* what writer.Save returned to the last call (NoSave: not invoked)
    calls        \* number of Start/End calls so far

\* The helpers of test/e2e.
VARIABLES
    under,       \* the helper the test drives
    inst,        \* the instrument.Instrument object
    adelta,      \* the instrument.ADeltaInstrument object
    now,         \* last reading of time.Now() by the test
    testOp,      \* the call of the test that returned last
    testIn,      \* its arguments, and what the fetcher answered to it
    testOut,     \* what it returned, computed and handed to WriteSummary
    testCalls    \* number of calls the test has made

\* One call of ParsePrometheusText.
VARIABLES
    rawLines,    \* the lines of raw the scanner has been through, in order
    out,         \* the local out, as a map from series to value
    scanStopped  \* sc.Scan() has returned false before the end of raw

\* The JSON file writers and the file system under them.
VARIABLES
    files,       \* the regular files: a map from path to content
    dirMade,     \* the directory of the writer's path exists
    savePc,      \* where the call in progress stands
    saveW,       \* its receiver
    saveDoc,     \* its argument
    saveTmp,     \* its local tmp
    saveRet,     \* what the last call returned
    removable,   \* os.Remove would succeed on the temp file of the call
    filesAtCall, \* the files when the last call began
    nano,        \* last reading of time.Now().UnixNano()
    saveCalls    \* number of calls begun

\* Several sessions over one counter.
VARIABLES
    counter,     \* the counter every session's fetcher scrapes
    sess,        \* the Instrument objects, by session
    multiPolicy, \* the policy they were all built with
    lastCall,    \* the session and operation of the last call
    multiCalls   \* number of calls made on the sessions

\* Two calls of a file writer at once.
VARIABLES
    raceKind,    \* the writer both calls are made on: Save or WriteJSON
    names,       \* the directory: a map from file name to file
    inodes,      \* the content of each file, named or not
    procs,       \* the two calls: position, argument, locals tmp and f
    raceClock    \* last reading of time.Now().UnixNano()

\* The hooks Attach registers, around one test.
VARIABLES
    depsEnabled, \* deps.Enabled, as BeforeEach read it
    hook,        \* the hook that ran last
    testFailed,  \* a hook has failed the test
    logged       \* the lines the hooks wrote to GinkgoWriter

sessionVars == <<labels, meta, writerSet, defs, policy, startSnap, startAt, clock,
                 lastOp, lastErr, endSnap, res, fetched, fetches, okStarts, okEnds,
                 saved, saveErr, calls>>

testVars == <<under, inst, adelta, now, testOp, testIn, testOut, testCalls>>

parseVars == <<rawLines, out, scanStopped>>

fileVars == <<files, dirMade, savePc, saveW, saveDoc, saveTmp, saveRet, removable,
              filesAtCall, nano, saveCalls>>

multiVars == <<counter, sess, multiPolicy, lastCall, multiCalls>>

raceVars == <<raceKind, names, inodes, procs, raceClock>>

harnessVars == <<depsEnabled, hook, testFailed, logged>>

vars == <<sessionVars, testVars, parseVars, fileVars, multiVars, raceVars, harnessVars>>

\* What the actions on one group of variables leave alone.
notSessionVars == <<testVars, parseVars, fileVars, multiVars, raceVars, harnessVars>>
notTestVars == <<sessionVars, parseVars, fileVars, multiVars, raceVars, harnessVars>>
notParseVars == <<sessionVars, testVars, fileVars, multiVars, raceVars, harnessVars>>
notFileVars == <<sessionVars, testVars, parseVars, multiVars, raceVars, harnessVars>>
notMultiVars == <<sessionVars, testVars, parseVars, fileVars, raceVars, harnessVars>>
notRaceVars == <<sessionVars, testVars, parseVars, fileVars, multiVars, harnessVars>>
notHarnessVars == <<testVars, parseVars, fileVars, multiVars, raceVars>>

config == <<labels, meta, writerSet, defs, policy>>

\* ------------------------------------------------------------ map helpers
\* Faulty variant: any key of the map answers for k
HasSomeKey(m, k) == DOMAIN m # {}
\* _, ok := m[k]: the key itself is in the map.
Has(m, k) == k \in DOMAIN m
\* v, ok := m[k]: the zero value when k is absent
Get(m, k) == IF k \in DOMAIN m THEN m[k] ELSE 0
Put(m, k, v) == [x \in (DOMAIN m) \cup {k} |-> IF x = k THEN v ELSE m[x]]

\* --------------------------------------------------- New (instrument.go)
\* The session New returns for the definition list ds: nothing stored yet.
New(ds) ==
    /\ labels = [suite |-> "e2e"]
    /\ meta = [Method |-> "ginkgo", Scope |-> "test-run"]
    /\ writerSet \in BOOLEAN
    /\ defs = ds
    /\ policy \in EvaluationPolicy
    /\ startSnap = NilMetricMap
    /\ startAt = ZeroTime
    /\ clock = 1
    /\ lastOp = "New"
    /\ lastErr = NoErr
    /\ endSnap = NilMetricMap
    /\ res = NoResult
    /\ fetched = NoFetch
    /\ fetches = <<>>
    /\ okStarts = 0
    /\ okEnds = 0
    /\ saved = <<>>
    /\ saveErr = NoSave
    /\ calls = 0

\* ------------------------------------ the helpers of test/e2e: their data
\* A *float64: nil, or a pointer to v.
NilPtr == [nil |-> TRUE]
Ptr(x) == [nil |-> FALSE, v |-> x]

ReconcileTotal == "controller_runtime_reconcile_total"

\* A /metrics body, as far as parseCounterSum looks at it: whether the text
\* parser accepts it, and the sum of the series of each metric family in it.
\* Only the family the helpers look for occurs.
MalformedText == [valid |-> FALSE, families |-> EmptyKV]
MetricsTexts ==
    {MalformedText} \cup
    {[valid |-> TRUE, families |-> f] :
        f \in {EmptyKV} \cup [{ReconcileTotal} -> Vals]}

\* What the MetricsFetcher answers: an error, or a body.
TextFetchErr == "fetcher: curl failed"
TextFetchOutcomes ==
    {[invoked |-> TRUE, text |-> MalformedText, err |-> TextFetchErr]}
    \cup {[invoked |-> TRUE, text |-> t, err |-> NoErr] : t \in MetricsTexts}

\* WriteSummary: succeeds or fails, as the writer decides.
WriteErr == "writer: write summary failed"
WriteOutcomes == {NoErr, WriteErr}
NoWrite == "not invoked"
NoSummary == [written |-> FALSE]

\* slo.Summary, as the helpers fill it.
Summary(l, t, conv, delta) ==
    [written |-> TRUE, Labels |-> l, CreatedAt |-> t,
     Metrics |-> [E2EConvergenceTimeSeconds |-> conv, ReconcileTotalDelta |-> delta]]

\* Arguments and results of a call that has none.
NoIn == [testPassed |-> FALSE, fetch |-> NoFetch, text |-> MalformedText,
         startSkipReason |-> "", startOK |-> FALSE, startV |-> 0,
         endOK |-> FALSE, endV |-> 0]
NoOut == [skipReason |-> "", conv |-> NilPtr, delta |-> NilPtr, result |-> "",
          summary |-> NoSummary, writeErr |-> NoWrite]

\* instrument.New: disabled unless WithEnabled(true) is among the options;
\* fetcher and writer may be nil.
NewInstrument(enabled, fetcher, writer) ==
    [enabled |-> enabled, fetcher |-> fetcher, writer |-> writer,
     labels |-> [Result |-> ""],
     startTime |-> ZeroTime, hasStart |-> FALSE,
     reconcileStart |-> 0, hasRecStart |-> FALSE,
     reconcileTotalMetricName |-> ReconcileTotal,
     lastFetchErr |-> NoErr, lastParseErr |-> NoErr]

\* instrument.NewADelta; enabled is a field of the object, false after
\* NewADelta and set by the code of the package that switches the helper on.
NewADelta(enabled, writer) ==
    [enabled |-> enabled, writer |-> writer,
     labels |-> [Result |-> ""],
     metricName |-> ReconcileTotal,
     runID |-> ZeroTime, startAt |-> ZeroTime, startV |-> 0, hasStart |-> FALSE]

\* The test and the helper h it drives, before its first call.
NewTest(h) ==
    /\ under = h
    /\ now = 1
    /\ testOp = "New"
    /\ testIn = NoIn
    /\ testOut = NoOut
    /\ testCalls = 0

\* No test is running: the helpers are built with nothing and never called.
NoTest ==
    /\ NewTest("none")
    /\ inst = NewInstrument(FALSE, FALSE, FALSE)
    /\ adelta = NewADelta(FALSE, FALSE)

\* No measurement session of instrumentv2 is in use.
NoSession ==
    /\ labels = [suite |-> "e2e"]
    /\ meta = [Method |-> "ginkgo", Scope |-> "test-run"]
    /\ writerSet = FALSE
    /\ defs = <<>>
    /\ policy = [AllowParallel |-> FALSE, OnGlobalInParallel |-> ""]
    /\ startSnap = NilMetricMap
    /\ startAt = ZeroTime
    /\ clock = 1
    /\ lastOp = "New"
    /\ lastErr = NoErr
    /\ endSnap = NilMetricMap
    /\ res = NoResult
    /\ fetched = NoFetch
    /\ fetches = <<>>
    /\ okStarts = 0
    /\ okEnds = 0
    /\ saved = <<>>
    /\ saveErr = NoSave
    /\ calls = 0

\* ParsePrometheusText has not been called.
NoParse ==
    /\ rawLines = <<>>
    /\ out = EmptyKV
    /\ scanStopped = FALSE

\* No file writer has been called; fs are the files on disk and dir tells
\* whether the directory of the writer's path exists.
WriterIdle(fs, dir) ==
    /\ files = fs
    /\ dirMade = dir
    /\ savePc = "idle"
    /\ saveW = [kind |-> "Save", isNil |-> TRUE, Path |-> ""]
    /\ saveDoc = ""
    /\ saveTmp = ""
    /\ saveRet = "not called"
    /\ removable = TRUE
    /\ filesAtCall = fs
    /\ nano = 0
    /\ saveCalls = 0

\* No file writer is called, and nothing is on disk.
NoFiles == WriterIdle(<<>>, FALSE)

\* No further session exists.
NoMulti ==
    /\ counter = 0
    /\ sess = <<>>
    /\ multiPolicy = [AllowParallel |-> FALSE, OnGlobalInParallel |-> ""]
    /\ lastCall = <<>>
    /\ multiCalls = 0

\* No two calls of a file writer run at once.
NoRace ==
    /\ raceKind = ""
    /\ names = <<>>
    /\ inodes = <<>>
    /\ procs = <<>>
    /\ raceClock = 0

\* Attach is not used.
NoHarness ==
    /\ depsEnabled = FALSE
    /\ hook = ""
    /\ testFailed = FALSE
    /\ logged = <<>>

Init ==
    /\ New(CommonMetricDefs)
    /\ NoTest /\ NoParse /\ NoFiles /\ NoMulti /\ NoRace /\ NoHarness

InitEval ==
    /\ \E ds \in SeqUpTo(MetricDef, MaxDefs) : New(ds)
    /\ NoTest /\ NoParse /\ NoFiles /\ NoMulti /\ NoRace /\ NoHarness

\* time.Now(): the wall clock never runs backwards between two readings.
TimeNow == {clock, clock + 1}

\* The fetcher, scraping series among N: an error, or a map -- possibly nil --
\* and no error. With an error the map is whatever the fetcher left in it.
FetchOutcomesOver(N) ==
    {[invoked |-> TRUE, m |-> s, err |-> FetchErr] : s \in {NilMetricMap, EmptyMetricMap}}
    \cup {[invoked |-> TRUE, m |-> s, err |-> NoErr] : s \in MetricMapOver(N)}

\* Every series identity may be scraped.
FetchOutcomes == FetchOutcomesOver(Names)
\* Only the series the default definition set names are scraped.
CommonFetchOutcomes ==
    FetchOutcomesOver({CommonMetricDefs[k].Name : k \in 1..Len(CommonMetricDefs)})

\* Faulty variant: the fetched map is stored before the error is looked at
StartStoresOnError(F) ==
    /\ calls' = calls + 1
    /\ lastOp' = "Start"
    /\ fetches' = Append(fetches, "Start")
    /\ \E f \in F :
         /\ fetched' = f
         /\ startSnap' = f.m
         /\ IF f.err # NoErr
            THEN /\ lastErr' = f.err
                 /\ UNCHANGED <<startAt, clock, okStarts>>
            ELSE /\ \E t \in TimeNow : startAt' = t /\ clock' = t
                 /\ okStarts' = okStarts + 1
                 /\ lastErr' = NoErr
    /\ endSnap' = NilMetricMap
    /\ res' = NoResult
    /\ saveErr' = NoSave
    /\ UNCHANGED <<config, saved, okEnds>>

\* Variant: a Start on a session that holds a start snapshot is rejected
StartOnce(F) ==
    /\ calls' = calls + 1
    /\ lastOp' = "Start"
    /\ IF ~startSnap.nil
       THEN /\ lastErr' = "instrument: Start() called twice"
            /\ fetched' = NoFetch
            /\ UNCHANGED <<fetches, startSnap, startAt, clock, okStarts>>
       ELSE /\ fetches' = Append(fetches, "Start")
            /\ \E f \in F :
                 /\ fetched' = f
                 /\ IF f.err # NoErr
                    THEN /\ lastErr' = f.err
                         /\ UNCHANGED <<startSnap, startAt, clock, okStarts>>
                    ELSE /\ startSnap' = f.m
                         /\ \E t \in TimeNow : startAt' = t /\ clock' = t
                         /\ okStarts' = okStarts + 1
                         /\ lastErr' = NoErr
    /\ endSnap' = NilMetricMap
    /\ res' = NoResult
    /\ saveErr' = NoSave
    /\ UNCHANGED <<config, saved, okEnds>>

\* ------------------------------------------------- Start (instrument.go)
\* Instrument.Start, the fetcher answering with one of F.
StartCall(F) ==
    /\ calls' = calls + 1
    /\ lastOp' = "Start"
    /\ fetches' = Append(fetches, "Start")
    /\ \E f \in F :
         /\ fetched' = f
         /\ IF f.err # NoErr
            THEN /\ lastErr' = f.err
                 /\ UNCHANGED <<startSnap, startAt, clock, okStarts>>
            ELSE /\ startSnap' = f.m
                 /\ \E t \in TimeNow : startAt' = t /\ clock' = t
                 /\ okStarts' = okStarts + 1
                 /\ lastErr' = NoErr
    /\ endSnap' = NilMetricMap
    /\ res' = NoResult
    /\ saveErr' = NoSave
    /\ UNCHANGED <<config, saved, okEnds>>

\* ---------------------------------------------- End: the per-definition loop
\* A definition is skipped as missing when either lookup fails.
\* Faulty variant: missing only when both lookups fail
MetricMissingBoth(okS, okE) == ~okS /\ ~okE
MetricMissing(okS, okE) == ~okS \/ ~okE

\* Faulty variant: AllowParallel not consulted
PolicyAppliesToGlobal(pol, d) == d.Scope = ScopeGlobal
\* The parallel policy concerns global metrics in parallel mode only.
PolicyApplies(pol, d) == pol.AllowParallel /\ d.Scope = ScopeGlobal

\* Faulty variant: the operands of the subtraction exchanged
DeltaSwapped(vEnd, vStart) == vStart - vEnd
Delta(vEnd, vStart) == vEnd - vStart

\* Faulty variant: a negative delta is refused and the metric skipped
MeasureRejectsNegative(r, d, vStart, vEnd) ==
    IF vEnd < vStart
    THEN [r EXCEPT !.Skipped = Put(@, d.Name, "negative delta")]
    ELSE [r EXCEPT !.Measurements = Put(@, d.Name, Delta(vEnd, vStart))]
Measure(r, d, vStart, vEnd) ==
    [r EXCEPT !.Measurements = Put(@, d.Name, Delta(vEnd, vStart))]

SkipMissing(r, d) == [r EXCEPT !.Skipped = Put(@, d.Name, "metric missing")]

\* The four arms of the switch on OnGlobalInParallel. Each yields the result
\* record after the arm and whether the arm ends the iteration (continue).
\* Faulty variant: the skip arm falls through to the measurement
OnSkipFallsThrough(r, d) ==
    [r |-> [r EXCEPT !.Skipped = Put(@, d.Name, "global metric in parallel mode")],
     continue |-> FALSE]
OnSkip(r, d) ==
    [r |-> [r EXCEPT !.Skipped = Put(@, d.Name, "global metric in parallel mode")],
     continue |-> TRUE]

\* Faulty variant: the warning not appended
OnWarnSilent(r, d) == [r |-> r, continue |-> FALSE]
OnWarn(r, d) ==
    [r |-> [r EXCEPT !.Warnings =
                Append(@, "global metric used in parallel mode: " \o d.Name)],
     continue |-> FALSE]

\* Faulty variant: the fail arm ends the iteration, as the skip arm does
OnFailContinue(r, d) ==
    [r |-> [r EXCEPT !.Errors =
                Append(@, "policy fail: global metric in parallel mode: " \o d.Name)],
     continue |-> TRUE]
OnFail(r, d) ==
    [r |-> [r EXCEPT !.Errors =
                Append(@, "policy fail: global metric in parallel mode: " \o d.Name)],
     continue |-> FALSE]

\* Faulty variant: the default arm does nothing
OnUnknownSilent(r, pol) == [r |-> r, continue |-> FALSE]
OnUnknown(r, pol) ==
    [r |-> [r EXCEPT !.Warnings =
                Append(@, "unknown OnGlobalInParallel policy; proceeding: "
                          \o pol.OnGlobalInParallel)],
     continue |-> FALSE]

PolicySwitch(r, d, pol) ==
    CASE pol.OnGlobalInParallel = "skip" -> OnSkip(r, d)
      [] pol.OnGlobalInParallel = "warn" -> OnWarn(r, d)
      [] pol.OnGlobalInParallel = "fail" -> OnFail(r, d)
      [] OTHER -> OnUnknown(r, pol)

\* One iteration of `for _, d := range i.defs`.
LoopBody(r, d, sKV, eKV, pol) ==
    LET vStart == Get(sKV, d.Name)
        vEnd == Get(eKV, d.Name)
    IN  IF MetricMissing(Has(sKV, d.Name), Has(eKV, d.Name))
        THEN SkipMissing(r, d)
        ELSE IF PolicyApplies(pol, d)
             THEN LET p == PolicySwitch(r, d, pol)
                  IN  IF p.continue THEN p.r
                      ELSE Measure(p.r, d, vStart, vEnd)
             ELSE Measure(r, d, vStart, vEnd)

RECURSIVE EvalDefs(_, _, _, _, _)
EvalDefs(r, ds, sKV, eKV, pol) ==
    IF ds = <<>> THEN r
    ELSE EvalDefs(LoopBody(r, Head(ds), sKV, eKV, pol), Tail(ds), sKV, eKV, pol)

\* Faulty variant: the two instants exchanged
NewResultSwapped(m, l, startMs, endMs) ==
    [built |-> TRUE, Meta |-> m, Labels |-> l,
     StartTimeUnixMs |-> endMs, EndTimeUnixMs |-> startMs,
     Measurements |-> EmptyKV, Skipped |-> EmptyKV,
     Warnings |-> <<>>, Errors |-> <<>>]
\* The SessionResult literal End starts from.
NewResult(m, l, startMs, endMs) ==
    [built |-> TRUE, Meta |-> m, Labels |-> l,
     StartTimeUnixMs |-> startMs, EndTimeUnixMs |-> endMs,
     Measurements |-> EmptyKV, Skipped |-> EmptyKV,
     Warnings |-> <<>>, Errors |-> <<>>]

\* Faulty variant: the guard dropped
StartNeverMissing(snap) == FALSE
\* End refuses to run while no start snapshot is stored.
StartMissing(snap) == snap.nil

\* writer.Save: succeeds or fails, as the SummaryWriter decides.
SaveOutcomes == {NoErr, SaveErr}

\* End returns the fetcher's error before it builds anything.
\* Faulty variant: the fetcher's error not looked at
EndFetchErrorIgnored(f) == FALSE
EndFetchFailed(f) == f.err # NoErr

\* Variant: only the first result of a session is handed to the writer
WriteResultOnce(r) ==
    IF ~writerSet \/ saved # <<>>
    THEN /\ lastErr' = NoErr
         /\ saveErr' = NoSave
         /\ UNCHANGED saved
    ELSE /\ saved' = Append(saved, r)
         /\ \E e \in SaveOutcomes : saveErr' = e /\ lastErr' = e

\* Faulty variant: Save's error is dropped
WriteResultSwallowed(r) ==
    IF ~writerSet
    THEN /\ lastErr' = NoErr
         /\ saveErr' = NoSave
         /\ UNCHANGED saved
    ELSE /\ saved' = Append(saved, r)
         /\ \E e \in SaveOutcomes : saveErr' = e
         /\ lastErr' = NoErr

\* Faulty variant: a session without a writer cannot be ended
WriteResultNeedsWriter(r) ==
    IF ~writerSet
    THEN /\ lastErr' = "instrument: no writer configured"
         /\ saveErr' = NoSave
         /\ UNCHANGED saved
    ELSE /\ saved' = Append(saved, r)
         /\ \E e \in SaveOutcomes : saveErr' = e /\ lastErr' = e

\* Faulty variant: a result that carries skipped entries, warnings or errors
\* makes End fail
WriteResultStrict(r) ==
    IF r.Errors # <<>> \/ r.Warnings # <<>> \/ DOMAIN r.Skipped # {}
    THEN /\ lastErr' = "instrument: measurement incomplete"
         /\ saveErr' = NoSave
         /\ UNCHANGED saved
    ELSE IF ~writerSet
         THEN /\ lastErr' = NoErr
              /\ saveErr' = NoSave
              /\ UNCHANGED saved
         ELSE /\ saved' = Append(saved, r)
              /\ \E e \in SaveOutcomes : saveErr' = e /\ lastErr' = e

\* The tail of End: without a writer End returns nil; with one, the result is
\* handed to Save and End returns what Save returns.
WriteResult(r) ==
    IF ~writerSet
    THEN /\ lastErr' = NoErr
         /\ saveErr' = NoSave
         /\ UNCHANGED saved
    ELSE /\ saved' = Append(saved, r)
         /\ \E e \in SaveOutcomes : saveErr' = e /\ lastErr' = e

\* Variant: an End whose fetch failed forgets the start snapshot
EndFetchErrorForgetsStart(F) ==
    /\ calls' = calls + 1
    /\ lastOp' = "End"
    /\ IF StartMissing(startSnap)
       THEN /\ lastErr' = ErrEndBeforeStart
            /\ endSnap' = NilMetricMap
            /\ res' = NoResult
            /\ fetched' = NoFetch
            /\ saveErr' = NoSave
            /\ UNCHANGED <<fetches, clock, saved, okEnds>>
       ELSE /\ fetches' = Append(fetches, "End")
            /\ \E f \in F :
                 /\ fetched' = f
                 /\ IF EndFetchFailed(f)
                    THEN /\ lastErr' = f.err
                         /\ endSnap' = NilMetricMap
                         /\ res' = NoResult
                         /\ saveErr' = NoSave
                         /\ UNCHANGED <<clock, saved, okEnds>>
                    ELSE /\ endSnap' = f.m
                         /\ \E t \in TimeNow :
                              /\ clock' = t
                              /\ res' = EvalDefs(NewResult(meta, labels, startAt, t),
                                                 defs, startSnap.kv, f.m.kv, policy)
                         /\ okEnds' = okEnds + 1
                         /\ WriteResult(res')
    /\ startSnap' = IF fetched'.invoked /\ fetched'.err # NoErr
                    THEN NilMetricMap ELSE startSnap
    /\ UNCHANGED <<config, startAt, okStarts>>

\* Variant: an End that built a result forgets the start snapshot, so that
\* the session cannot be ended again
EndClearsStart(F) ==
    /\ calls' = calls + 1
    /\ lastOp' = "End"
    /\ IF StartMissing(startSnap)
       THEN /\ lastErr' = ErrEndBeforeStart
            /\ endSnap' = NilMetricMap
            /\ res' = NoResult
            /\ fetched' = NoFetch
            /\ saveErr' = NoSave
            /\ UNCHANGED <<fetches, clock, saved, okEnds>>
       ELSE /\ fetches' = Append(fetches, "End")
            /\ \E f \in F :
                 /\ fetched' = f
                 /\ IF EndFetchFailed(f)
                    THEN /\ lastErr' = f.err
                         /\ endSnap' = NilMetricMap
                         /\ res' = NoResult
                         /\ saveErr' = NoSave
                         /\ UNCHANGED <<clock, saved, okEnds>>
                    ELSE /\ endSnap' = f.m
                         /\ \E t \in TimeNow :
                              /\ clock' = t
                              /\ res' = EvalDefs(NewResult(meta, labels, startAt, t),
                                                 defs, startSnap.kv, f.m.kv, policy)
                         /\ okEnds' = okEnds + 1
                         /\ WriteResult(res')
    /\ startSnap' = IF fetched'.invoked /\ fetched'.err = NoErr
                    THEN NilMetricMap ELSE startSnap
    /\ UNCHANGED <<config, startAt, okStarts>>

\* --------------------------------------------------- End (instrument.go)
\* Instrument.End, the fetcher answering with one of F.
EndCall(F) ==
    /\ calls' = calls + 1
    /\ lastOp' = "End"
    /\ IF StartMissing(startSnap)
       THEN /\ lastErr' = ErrEndBeforeStart
            /\ endSnap' = NilMetricMap
            /\ res' = NoResult
            /\ fetched' = NoFetch
            /\ saveErr' = NoSave
            /\ UNCHANGED <<fetches, clock, saved, okEnds>>
       ELSE /\ fetches' = Append(fetches, "End")
            /\ \E f \in F :
                 /\ fetched' = f
                 /\ IF EndFetchFailed(f)
                    THEN /\ lastErr' = f.err
                         /\ endSnap' = NilMetricMap
                         /\ res' = NoResult
                         /\ saveErr' = NoSave
                         /\ UNCHANGED <<clock, saved, okEnds>>
                    ELSE /\ endSnap' = f.m
                         /\ \E t \in TimeNow :
                              /\ clock' = t
                              /\ res' = EvalDefs(NewResult(meta, labels, startAt, t),
                                                 defs, startSnap.kv, f.m.kv, policy)
                         /\ okEnds' = okEnds + 1
                         /\ WriteResult(res')
    /\ UNCHANGED <<config, startSnap, startAt, okStarts>>

\* ------------------------------------------------------- specifications
\* Any sequence of calls on one session.
Start == calls < MaxCalls /\ StartCall(CommonFetchOutcomes) /\ UNCHANGED notSessionVars
End == calls < MaxCalls /\ EndCall(CommonFetchOutcomes) /\ UNCHANGED notSessionVars

Next == Start \/ End

Spec == Init /\ [][Next]_vars

\* A session used once: Start on the fresh session, then End (called whether
\* or not that Start succeeded).
FirstStart == lastOp = "New" /\ StartCall(FetchOutcomes) /\ UNCHANGED notSessionVars
EndAfterStart == lastOp = "Start" /\ EndCall(FetchOutcomes) /\ UNCHANGED notSessionVars

NextEval == FirstStart \/ EndAfterStart

SpecEval == InitEval /\ [][NextEval]_vars

\* ===================================================================
\* The best-effort helpers of test/e2e
\* ===================================================================
\* time.Now() as the test reads it.
TimeNowTest == {now, now + 1}

\* parseCounterSum: the sum of the series of metricName, or an error when the
\* text does not parse or holds no such family.
parseCounterSum(text, metricName) ==
    IF ~text.valid
    THEN [v |-> 0, err |-> "text parse failed"]
    ELSE IF ~Has(text.families, metricName)
         THEN [v |-> 0, err |-> "metric not found: " \o metricName]
         ELSE [v |-> text.families[metricName], err |-> NoErr]

\* ------------------------------- instrument.Instrument (instrument.go)
\* The snapshot part of Start, on the object i with start time recorded.
StartSnapshot(i, f) ==
    IF f.err # NoErr
    THEN [i EXCEPT !.lastFetchErr = f.err]
    ELSE LET p == parseCounterSum(f.text, i.reconcileTotalMetricName) IN
         IF p.err # NoErr
         THEN [i EXCEPT !.lastParseErr = p.err]
         ELSE [i EXCEPT !.reconcileStart = p.v, !.hasRecStart = TRUE]

InstrumentStart ==
    /\ under = "Instrument" /\ testCalls < MaxTestCalls
    /\ testCalls' = testCalls + 1
    /\ testOp' = "Instrument.Start"
    /\ testOut' = NoOut
    /\ IF ~inst.enabled
       THEN testIn' = NoIn /\ UNCHANGED <<inst, now>>
       ELSE \E t \in TimeNowTest :
              /\ now' = t
              /\ LET started == [inst EXCEPT !.startTime = t, !.hasStart = TRUE] IN
                 IF ~inst.fetcher
                 THEN inst' = started /\ testIn' = NoIn
                 ELSE \E f \in TextFetchOutcomes :
                        /\ testIn' = [NoIn EXCEPT !.fetch = f]
                        /\ inst' = StartSnapshot(started, f)
    /\ UNCHANGED <<under, adelta>>
    /\ UNCHANGED notTestVars

\* The negative delta policy of End: a counter that went down counts as
\* missing.
\* Faulty variant: the sign of the delta not looked at
ReconcileDeltaSigned(endV, startV) == Ptr(endV - startV)
ReconcileDelta(endV, startV) ==
    LET d == endV - startV IN
    IF d < 0 THEN NilPtr ELSE Ptr(d)

\* End's deltaVal, f being what the fetcher answered (NoFetch: not asked).
EndDeltaVal(i, f) ==
    IF ~f.invoked \/ f.err # NoErr
    THEN NilPtr
    ELSE LET p == parseCounterSum(f.text, i.reconcileTotalMetricName) IN
         IF p.err # NoErr THEN NilPtr
         ELSE ReconcileDelta(p.v, i.reconcileStart)

\* The error fields End leaves behind.
EndErrors(i, f) ==
    IF ~f.invoked THEN i
    ELSE IF f.err # NoErr THEN [i EXCEPT !.lastFetchErr = f.err]
    ELSE LET p == parseCounterSum(f.text, i.reconcileTotalMetricName) IN
         IF p.err # NoErr THEN [i EXCEPT !.lastParseErr = p.err] ELSE i

\* Rule B of End: the test's verdict first, the measurements second.
\* Faulty variant: the measurements looked at first
FinalResultMeasuredFirst(testPassed, convSeconds, deltaVal) ==
    IF convSeconds.nil \/ deltaVal.nil THEN "skip"
    ELSE IF ~testPassed THEN "fail"
    ELSE "success"
FinalResult(testPassed, convSeconds, deltaVal) ==
    IF ~testPassed THEN "fail"
    ELSE IF convSeconds.nil \/ deltaVal.nil THEN "skip"
    ELSE "success"

\* End from the reading t of the clock on, f being the fetcher's answer.
EndFinish(testPassed, t, f) ==
    LET convSeconds == IF inst.hasStart THEN Ptr(t - inst.startTime) ELSE NilPtr
        deltaVal == EndDeltaVal(inst, f)
        finalResult == FinalResult(testPassed, convSeconds, deltaVal)
        i2 == [EndErrors(inst, f) EXCEPT !.labels.Result = finalResult]
        locals == [NoOut EXCEPT !.conv = convSeconds, !.delta = deltaVal,
                             !.result = finalResult]
    IN  /\ inst' = i2
        /\ testIn' = [NoIn EXCEPT !.testPassed = testPassed, !.fetch = f]
        /\ IF ~inst.writer
           THEN testOut' = locals
           ELSE \E e \in WriteOutcomes :
                  testOut' = [locals EXCEPT
                                 !.summary = Summary(i2.labels, t, convSeconds, deltaVal),
                                 !.writeErr = e]

\* End scrapes only against a stored start value, and only with a fetcher.
\* Faulty variant: the stored start value not asked for
EndFetchesAlways(i) == i.fetcher
EndFetches(i) == i.hasRecStart /\ i.fetcher

InstrumentEnd ==
    /\ under = "Instrument" /\ testCalls < MaxTestCalls
    /\ testCalls' = testCalls + 1
    /\ testOp' = "Instrument.End"
    /\ \E testPassed \in BOOLEAN :
         IF ~inst.enabled
         THEN /\ testIn' = [NoIn EXCEPT !.testPassed = testPassed]
              /\ testOut' = NoOut
              /\ UNCHANGED <<inst, now>>
         ELSE \E t \in TimeNowTest :
                /\ now' = t
                /\ IF EndFetches(inst)
                   THEN \E f \in TextFetchOutcomes : EndFinish(testPassed, t, f)
                   ELSE EndFinish(testPassed, t, NoFetch)
    /\ UNCHANGED <<under, adelta>>
    /\ UNCHANGED notTestVars

\* ------------------- instrument.ADeltaInstrument (a_metrics_text_delta.go)
\* The last step of EndFromMetricsText: label and write, if there is a
\* writer. Without a writer the label is not even computed.
\* Rule B again, with the skip reason as a third ground for skip.
BestEffortResult(testPassed, convSeconds, deltaVal, skipReason) ==
    IF ~testPassed THEN "fail"
    ELSE IF convSeconds.nil \/ deltaVal.nil \/ skipReason # "" THEN "skip"
    ELSE "success"

writeBestEffort(t, testPassed, convSeconds, deltaVal, skipReason) ==
    LET locals == [NoOut EXCEPT !.conv = convSeconds, !.delta = deltaVal,
                             !.skipReason = skipReason]
    IN  IF ~adelta.writer
        THEN /\ adelta' = adelta
             /\ testOut' = locals
        ELSE LET finalResult ==
                    BestEffortResult(testPassed, convSeconds, deltaVal, skipReason)
                 a2 == [adelta EXCEPT !.labels.Result = finalResult]
             IN  /\ adelta' = a2
                 /\ \E e \in WriteOutcomes :
                      testOut' = [locals EXCEPT
                                     !.result = finalResult,
                                     !.summary = Summary(a2.labels, t, convSeconds, deltaVal),
                                     !.writeErr = e]

StartFromMetricsText ==
    /\ under = "ADeltaInstrument" /\ testCalls < MaxTestCalls
    /\ testCalls' = testCalls + 1
    /\ testOp' = "StartFromMetricsText"
    /\ \E text \in MetricsTexts, t1 \in TimeNowTest :
         /\ testIn' = [NoIn EXCEPT !.text = text]
         /\ IF ~adelta.enabled
            THEN /\ now' = t1
                 /\ adelta' = [adelta EXCEPT !.runID = t1]
                 /\ testOut' = [NoOut EXCEPT !.skipReason = "instrumentation disabled"]
            ELSE \E t2 \in {t1, t1 + 1} :
                   /\ now' = t2
                   /\ LET a == [adelta EXCEPT !.runID = t1, !.startAt = t2]
                          p == parseCounterSum(text, adelta.metricName)
                      IN  IF p.err # NoErr
                          THEN /\ adelta' = a
                               /\ testOut' = [NoOut EXCEPT !.skipReason =
                                                 "start parse failed: " \o p.err]
                          ELSE /\ adelta' = [a EXCEPT !.startV = p.v, !.hasStart = TRUE]
                               /\ testOut' = NoOut
    /\ UNCHANGED <<under, inst>>
    /\ UNCHANGED notTestVars

\* What a caller may hand to EndFromMetricsText as the reason Start gave.
StartSkipReasons ==
    {"", "instrumentation disabled",
     "start parse failed: text parse failed",
     "start parse failed: metric not found: " \o ReconcileTotal}

EndFromMetricsText ==
    /\ under = "ADeltaInstrument" /\ testCalls < MaxTestCalls
    /\ testCalls' = testCalls + 1
    /\ testOp' = "EndFromMetricsText"
    /\ \E text \in MetricsTexts, startSkipReason \in StartSkipReasons,
          testPassed \in BOOLEAN :
         /\ testIn' = [NoIn EXCEPT !.text = text, !.testPassed = testPassed,
                                   !.startSkipReason = startSkipReason]
         /\ IF ~adelta.enabled
            THEN /\ testOut' = NoOut
                 /\ UNCHANGED <<adelta, now>>
            ELSE \E endAt \in TimeNowTest :
                   /\ now' = endAt
                   /\ LET convSeconds == IF adelta.startAt # ZeroTime
                                         THEN Ptr(endAt - adelta.startAt) ELSE NilPtr
                          p == parseCounterSum(text, adelta.metricName)
                          d == p.v - adelta.startV
                      IN  IF startSkipReason # ""
                          THEN writeBestEffort(endAt, testPassed, convSeconds, NilPtr,
                                               startSkipReason)
                          ELSE IF ~adelta.hasStart
                          THEN writeBestEffort(endAt, testPassed, convSeconds, NilPtr,
                                               "start snapshot missing")
                          ELSE IF p.err # NoErr
                          THEN writeBestEffort(endAt, testPassed, convSeconds, NilPtr,
                                               "end parse failed: " \o p.err)
                          ELSE IF d < 0
                          THEN writeBestEffort(endAt, testPassed, convSeconds, NilPtr,
                                               "negative delta: " \o ToString(d))
                          ELSE writeBestEffort(endAt, testPassed, convSeconds, Ptr(d), "")
    /\ UNCHANGED <<under, inst>>
    /\ UNCHANGED notTestVars

\* ---------------- the snapshot block of the metrics test (e2e_test.go)
\* deltaF: the delta of the two snapshots, when both were taken and the
\* counter did not go down.
InlineDelta(startOK, startV, endOK, endV) ==
    IF startOK /\ endOK /\ endV - startV >= 0 THEN Ptr(endV - startV) ELSE NilPtr

InlineResult(startOK, endOK, deltaF) ==
    IF startOK /\ endOK /\ ~deltaF.nil THEN "success" ELSE "skip"

\* A snapshot of the block: not taken (the value stays 0), or a value.
Snapshots == {[ok |-> FALSE, v |-> 0]} \cup {[ok |-> TRUE, v |-> x] : x \in Vals}

MetricsTestSummary ==
    /\ under = "e2e_test" /\ testCalls < MaxTestCalls
    /\ testCalls' = testCalls + 1
    /\ testOp' = "MetricsTestSummary"
    /\ \E s \in Snapshots, e \in Snapshots, t \in TimeNowTest, w \in WriteOutcomes :
         LET deltaF == InlineDelta(s.ok, s.v, e.ok, e.v)
             result == InlineResult(s.ok, e.ok, deltaF)
         IN  /\ now' = t
             /\ testIn' = [NoIn EXCEPT !.testPassed = TRUE,
                                       !.startOK = s.ok, !.startV = s.v,
                                       !.endOK = e.ok, !.endV = e.v]
             /\ testOut' = [NoOut EXCEPT
                               !.delta = deltaF, !.result = result,
                               !.summary = Summary([Result |-> result], t, NilPtr, deltaF),
                               !.writeErr = w]
    /\ UNCHANGED <<under, inst, adelta>>
    /\ UNCHANGED notTestVars

\* ------------------------------------------------------------ SpecTest
\* One test and the helper it drives; the helpers it does not drive are
\* built with nothing and left alone.
InitTest ==
    /\ NoSession
    /\ NoParse
    /\ NoFiles
    /\ NoMulti
    /\ NoRace
    /\ NoHarness
    /\ \/ /\ NewTest("Instrument")
          /\ \E e \in BOOLEAN, f \in BOOLEAN, w \in BOOLEAN :
                inst = NewInstrument(e, f, w)
          /\ adelta = NewADelta(FALSE, FALSE)
       \/ /\ NewTest("ADeltaInstrument")
          /\ inst = NewInstrument(FALSE, FALSE, FALSE)
          /\ \E e \in BOOLEAN, w \in BOOLEAN : adelta = NewADelta(e, w)
       \/ /\ NewTest("e2e_test")
          /\ inst = NewInstrument(FALSE, FALSE, FALSE)
          /\ adelta = NewADelta(FALSE, FALSE)

NextTest ==
    \/ InstrumentStart
    \/ InstrumentEnd
    \/ StartFromMetricsText
    \/ EndFromMetricsText
    \/ MetricsTestSummary

SpecTest == InitTest /\ [][NextTest]_vars

\* ===================================================================
\* ParsePrometheusText (harness_metrics.go)
\* ===================================================================
\* A line of raw, as the loop sees it: its whitespace-delimited fields
\* (strings.Fields of the trimmed line), and whether it is longer than the
\* scanner's token limit (bufio.MaxScanTokenSize), in which case sc.Scan()
\* returns false and the loop ends there.
LabelValues == {"a", "b"}
Labelled(base, l) == base \o "{controller=\"" \o l \o "\"}"

\* The series identities of the input: a metric bare and with two label
\* sets, and another metric with a label set.
WorkqueueDepth == "workqueue_depth"
LabelledSeries ==
    {Labelled(ReconcileTotal, l) : l \in LabelValues}
    \cup {Labelled(WorkqueueDepth, "a")}
SeriesTokens == {ReconcileTotal} \cup LabelledSeries

\* Value fields: the numbers of Vals in decimal, and a word that is none.
NumberTokens == {ToString(v) : v \in Vals}
NotANumber == "x"
ValueTokens == NumberTokens \cup {NotANumber}

Line(f) == [long |-> FALSE, fields |-> f]
BlankLine == Line(<<>>)
CommentLine == Line(<<"#", "1">>)
OneFieldLine == Line(<<ReconcileTotal>>)
TooLongLine == [long |-> TRUE, fields |-> <<ReconcileTotal, "1">>]
TwoFieldLines == {Line(<<s, v>>) : s \in SeriesTokens, v \in ValueTokens}
\* A third field, as the timestamp of the exposition format.
ThreeFieldLines ==
    {Line(<<s, v, ts>>) : s \in {ReconcileTotal, Labelled(ReconcileTotal, "a")},
                          v \in {"1", NotANumber}, ts \in {"0", NotANumber}}
InputLines ==
    {BlankLine, CommentLine, OneFieldLine, TooLongLine}
    \cup TwoFieldLines \cup ThreeFieldLines

\* strconv.ParseFloat on a field.
ParseFloat(str) ==
    IF str \in NumberTokens
    THEN [ok |-> TRUE, v |-> CHOOSE v \in Vals : ToString(v) = str]
    ELSE [ok |-> FALSE, v |-> 0]

\* strings.HasPrefix(line, "#")
IsComment(fields) == fields # <<>> /\ fields[1] = "#"
\* strings.Contains(series, "{")
HasBrace(series) == series \in LabelledSeries
\* series[:strings.Index(series, "{")]
PlainOf(series) ==
    CHOOSE b \in {ReconcileTotal, WorkqueueDepth} :
        \E l \in LabelValues : series = Labelled(b, l)

\* The field taken as the value.
\* Variant: the last field
ValueFieldLast(fields) == fields[Len(fields)]
ValueField(fields) == fields[2]

\* One iteration of `for sc.Scan()` on the fields of a line.
ParseLine(o, fields) ==
    IF fields = <<>> \/ IsComment(fields) THEN o
    ELSE IF Len(fields) < 2 THEN o
    ELSE LET series == fields[1]
             p == ParseFloat(ValueField(fields))
         IN  IF ~p.ok THEN o
             ELSE IF HasBrace(series)
                  THEN LET o1 == Put(o, series, p.v)
                           plain == PlainOf(series)
                       IN  Put(o1, plain, Get(o1, plain) + p.v)
                  ELSE Put(o, series, p.v)

\* The scanner goes through the next line of raw. The error of a line that
\* is too long is never looked at (sc.Err() is not called): the lines after
\* it are not read.
ScanLine ==
    /\ Len(rawLines) < MaxLines
    /\ \E l \in InputLines :
         /\ rawLines' = Append(rawLines, l)
         /\ IF scanStopped
            THEN UNCHANGED <<out, scanStopped>>
            ELSE IF l.long
                 THEN scanStopped' = TRUE /\ UNCHANGED out
                 ELSE out' = ParseLine(out, l.fields) /\ UNCHANGED scanStopped
    /\ UNCHANGED notParseVars

InitParse ==
    NoSession /\ NoTest /\ NoParse /\ NoFiles /\ NoMulti /\ NoRace /\ NoHarness

NextParse == ScanLine

SpecParse == InitParse /\ [][NextParse]_vars

\* ===================================================================
\* JSONFileWriter.Save (pkg/slo/instrumentv2) and JSONFileWriter.WriteJSON
\* (internal/artifacts)
\* ===================================================================
\* The path the writers of the model are built with.
ResultPath == "artifacts/session.json"

\* The receivers: Save has a pointer receiver, which may be nil; WriteJSON
\* has a value receiver.
Writers ==
    {[kind |-> "Save", isNil |-> TRUE, Path |-> ""]}
        \cup {[kind |-> k, isNil |-> FALSE, Path |-> p] :
                 k \in {"Save", "WriteJSON"}, p \in {"", ResultPath}}

\* The values saved, and the bytes the encoder produces for one of them, in
\* the pieces in which they may reach the file.
Docs == {"r1", "r2"}
Encode(d) == <<"{", d, "}\n">>

\* What the writer returns.
MkdirErr == "mkdir failed"
CreateErr == "create failed"
EncodeErr == "encode failed"
CloseErr == "close failed"
RenameErr == "rename failed"
Killed == "process died"

\* Variant: the empty path is not checked.
PathAlwaysSet(w) == FALSE
\* w == nil || w.Path == "".
PathUnset(w) == w.isNil \/ w.Path = ""

\* Variant: the content is written to the destination itself.
TmpInPlace(w, n) == w.Path
\* The temporary file: Path.tmp.<UnixNano> for Save, Path.tmp for WriteJSON.
TmpName(w, n) ==
    IF w.kind = "Save" THEN w.Path \o ".tmp." \o ToString(n)
                       ELSE w.Path \o ".tmp"

\* os.Create and the writes on the file: name holds content c.
WriteFile(fs, name, c) ==
    [x \in (DOMAIN fs) \cup {name} |-> IF x = name THEN c ELSE fs[x]]
\* os.Remove.
RemoveFile(fs, name) == [x \in (DOMAIN fs) \ {name} |-> fs[x]]
\* os.Rename: to holds what from held, and from is gone.
RenameFile(fs, from, to) ==
    IF from = to THEN fs
    ELSE RemoveFile(WriteFile(fs, to, fs[from]), from)

\* Variant: the temp file is left behind.
CleanupNone == files' = files
\* _ = os.Remove(tmp): the file is gone when the call succeeds, and its
\* error is dropped.
Cleanup == files' = (IF removable THEN RemoveFile(files, saveTmp) ELSE files)

\* The call returns e.
Return(e) ==
    /\ savePc' = "idle"
    /\ saveRet' = e

\* Entry of Save / WriteJSON: the nil and empty-path check, then
\* os.MkdirAll(filepath.Dir(Path)), which cannot fail on a directory that
\* exists.
SaveEnter ==
    /\ savePc = "idle"
    /\ saveCalls < MaxSaves
    /\ \E w \in Writers, d \in Docs :
          /\ saveW' = w
          /\ saveDoc' = d
          /\ IF PathUnset(w)
             THEN Return(NoErr) /\ UNCHANGED dirMade
             ELSE \/ dirMade' = TRUE /\ savePc' = "mkdir" /\ saveRet' = "running"
                  \/ ~dirMade /\ Return(MkdirErr) /\ UNCHANGED dirMade
    /\ saveCalls' = saveCalls + 1
    /\ filesAtCall' = files
    /\ saveTmp' = ""
    /\ UNCHANGED <<files, removable, nano>>
    /\ UNCHANGED notFileVars

\* tmp := ...; f, err := os.Create(tmp): the file exists and is empty, or
\* the call fails and the error is returned.
CreateTmp ==
    /\ savePc = "mkdir"
    /\ nano' = nano + 1
    /\ saveTmp' = TmpName(saveW, nano')
    /\ \/ /\ files' = WriteFile(files, saveTmp', <<>>)
          /\ savePc' = "created"
          /\ removable' \in BOOLEAN
          /\ UNCHANGED saveRet
       \/ /\ Return(CreateErr)
          /\ UNCHANGED <<files, removable>>
    /\ UNCHANGED <<dirMade, saveW, saveDoc, filesAtCall, saveCalls>>
    /\ UNCHANGED notFileVars

\* enc.Encode: the next piece of the encoding reaches the file.
EncodeWrite ==
    /\ savePc = "created"
    /\ LET c == Append(files[saveTmp], Encode(saveDoc)[Len(files[saveTmp]) + 1]) IN
       /\ files' = WriteFile(files, saveTmp, c)
       /\ savePc' = (IF c = Encode(saveDoc) THEN "encoded" ELSE "created")
    /\ UNCHANGED <<dirMade, saveW, saveDoc, saveTmp, saveRet, removable,
                   filesAtCall, nano, saveCalls>>
    /\ UNCHANGED notFileVars

\* enc.Encode fails, before its first write or between two: the file is
\* closed and removed, and the error returned.
EncodeFails ==
    /\ savePc = "created"
    /\ Cleanup
    /\ Return(EncodeErr)
    /\ UNCHANGED <<dirMade, saveW, saveDoc, saveTmp, removable, filesAtCall, nano,
                   saveCalls>>
    /\ UNCHANGED notFileVars

\* f.Close(): on failure the file is removed and the error returned.
CloseFile ==
    /\ savePc = "encoded"
    /\ \/ /\ savePc' = "closed"
          /\ UNCHANGED <<files, saveRet>>
       \/ /\ Cleanup
          /\ Return(CloseErr)
    /\ UNCHANGED <<dirMade, saveW, saveDoc, saveTmp, removable, filesAtCall, nano,
                   saveCalls>>
    /\ UNCHANGED notFileVars

\* return os.Rename(tmp, Path).
RenameTmp ==
    /\ savePc = "closed"
    /\ \/ /\ files' = RenameFile(files, saveTmp, saveW.Path)
          /\ Return(NoErr)
       \/ /\ Return(RenameErr)
          /\ UNCHANGED files
    /\ UNCHANGED <<dirMade, saveW, saveDoc, saveTmp, removable, filesAtCall, nano,
                   saveCalls>>
    /\ UNCHANGED notFileVars

\* The process dies between two steps of the call; the files stay as they
\* are.
Die ==
    /\ savePc # "idle"
    /\ Return(Killed)
    /\ UNCHANGED <<files, dirMade, saveW, saveDoc, saveTmp, removable, filesAtCall,
                   nano, saveCalls>>
    /\ UNCHANGED notFileVars

\* The destination is absent, or holds what an earlier call saved.
OldDoc == "r0"
InitSave ==
    /\ NoSession
    /\ NoTest
    /\ NoParse
    /\ NoMulti
    /\ NoRace
    /\ NoHarness
    /\ \/ \E dir \in BOOLEAN : WriterIdle(<<>>, dir)
       \/ WriterIdle(WriteFile(<<>>, ResultPath, Encode(OldDoc)), TRUE)

NextSave ==
    \/ SaveEnter
    \/ CreateTmp
    \/ EncodeWrite
    \/ EncodeFails
    \/ CloseFile
    \/ RenameTmp
    \/ Die

SpecSave == InitSave /\ [][NextSave]_vars

\* ===================================================================
\* Several sessions (instrumentv2.Instrument) over one counter
\* ===================================================================
Sessions == {"s1", "s2"}

\* The Instrument New returns; seenStart and seenEnd remember the counter
\* values its own fetches saw.
NewSession ==
    [startSnap |-> NilMetricMap, startAt |-> ZeroTime, lastErr |-> NoErr,
     res |-> NoResult, seenStart |-> -1, seenEnd |-> -1]

\* The policies the sessions may be built with.
MultiPolicies == {p \in EvaluationPolicy : p.OnGlobalInParallel \in {"skip", "warn"}}

\* A session's fetcher: the scrape fails, or returns the counter as it now is.
CounterFetch ==
    {[invoked |-> TRUE, m |-> NilMetricMap, err |-> FetchErr],
     [invoked |-> TRUE, err |-> NoErr,
      m |-> [nil |-> FALSE, kv |-> [n \in {CommonMetricDefs[1].Name} |-> counter]]]}

\* Variant: the fields are shared by all the sessions
ReceiverAny(s) == Sessions
\* The object whose fields a method called on s writes: its receiver.
Receiver(s) == {s}

\* The call on s has left the Instrument as r.
Assign(s, r) ==
    /\ sess' = [t \in Sessions |-> IF t \in Receiver(s) THEN r ELSE sess[t]]
    /\ multiCalls' = multiCalls + 1
    /\ UNCHANGED <<counter, multiPolicy>>
    /\ UNCHANGED notMultiVars

\* Instrument.Start on session s.
MultiStart(s) ==
    /\ multiCalls < MaxMultiCalls
    /\ lastCall' = <<s, "Start">>
    /\ \E f \in CounterFetch :
          IF f.err # NoErr
          THEN Assign(s, [sess[s] EXCEPT !.lastErr = f.err])
          ELSE Assign(s, [sess[s] EXCEPT !.startSnap = f.m,
                                         !.startAt = multiCalls + 1,
                                         !.lastErr = NoErr,
                                         !.seenStart = counter])

\* Instrument.End on session s (built without a writer).
MultiEnd(s) ==
    /\ multiCalls < MaxMultiCalls
    /\ lastCall' = <<s, "End">>
    /\ IF StartMissing(sess[s].startSnap)
       THEN Assign(s, [sess[s] EXCEPT !.lastErr = ErrEndBeforeStart])
       ELSE \E f \in CounterFetch :
               IF EndFetchFailed(f)
               THEN Assign(s, [sess[s] EXCEPT !.lastErr = f.err])
               ELSE Assign(s, [sess[s] EXCEPT
                       !.res = EvalDefs(NewResult([Method |-> "ginkgo", Scope |-> s],
                                                  [suite |-> "e2e"],
                                                  sess[s].startAt, multiCalls + 1),
                                        CommonMetricDefs, sess[s].startSnap.kv,
                                        f.m.kv, multiPolicy),
                       !.lastErr = NoErr,
                       !.seenEnd = counter])

\* The operator under test reconciles once more: the counter goes up.
Reconcile ==
    /\ counter < MaxCount
    /\ counter' = counter + 1
    /\ UNCHANGED <<sess, multiPolicy, lastCall, multiCalls>>
    /\ UNCHANGED notMultiVars

InitMulti ==
    /\ NoSession
    /\ NoTest
    /\ NoParse
    /\ NoFiles
    /\ NoRace
    /\ NoHarness
    /\ counter = 0
    /\ sess = [s \in Sessions |-> NewSession]
    /\ multiPolicy \in MultiPolicies
    /\ lastCall = <<>>
    /\ multiCalls = 0

NextMulti ==
    \/ \E s \in Sessions : MultiStart(s)
    \/ \E s \in Sessions : MultiEnd(s)
    \/ Reconcile

SpecMulti == InitMulti /\ [][NextMulti]_vars

\* ===================================================================
\* Two calls of Save, or of WriteJSON / WriteSummary, on one path at once
\* ===================================================================
\* The two calls, and the value each is asked to save.
Procs == {"p1", "p2"}
DocOf(p) == IF p = "p1" THEN "r1" ELSE "r2"

\* A write of the piece x at offset i of a file of content c: every open
\* file has its own offset, and a write past the end leaves a hole.
WriteAt(c, i, x) ==
    [k \in 1..(IF i > Len(c) THEN i ELSE Len(c)) |->
        IF k = i THEN x ELSE IF k <= Len(c) THEN c[k] ELSE "\\0"]

\* The directory without the name n (os.Remove, and the source of a rename).
Unlink(n) == [x \in (DOMAIN names) \ {n} |-> names[x]]

\* The call p has returned e.
RaceReturn(p, e) == procs' = [procs EXCEPT ![p].pc = "done", ![p].ret = e]

\* Entry: the path is set and its directory exists, so the checks and
\* os.MkdirAll pass; tmp is named, for Save after a reading of the clock,
\* which two calls running at once may read alike.
RaceName(p) ==
    /\ procs[p].pc = "called"
    /\ \E t \in {raceClock, raceClock + 1} :
          /\ raceClock' = t
          /\ procs' = [procs EXCEPT
                ![p].pc = "named",
                ![p].tmp = TmpName([kind |-> raceKind, isNil |-> FALSE,
                                    Path |-> ResultPath], t)]
    /\ UNCHANGED <<raceKind, names, inodes>>
    /\ UNCHANGED notRaceVars

\* f, err := os.Create(tmp): a new empty file, or the file of that name
\* emptied; or an error, which is returned.
RaceCreate(p) ==
    /\ procs[p].pc = "named"
    /\ \/ /\ procs[p].tmp \in DOMAIN names
          /\ inodes' = [inodes EXCEPT ![names[procs[p].tmp]] = <<>>]
          /\ procs' = [procs EXCEPT ![p].pc = "created", ![p].f = names[procs[p].tmp]]
          /\ UNCHANGED names
       \/ /\ procs[p].tmp \notin DOMAIN names
          /\ inodes' = Append(inodes, <<>>)
          /\ names' = [x \in (DOMAIN names) \cup {procs[p].tmp} |->
                          IF x = procs[p].tmp THEN Len(inodes) + 1 ELSE names[x]]
          /\ procs' = [procs EXCEPT ![p].pc = "created", ![p].f = Len(inodes) + 1]
       \/ /\ RaceReturn(p, CreateErr)
          /\ UNCHANGED <<names, inodes>>
    /\ UNCHANGED <<raceKind, raceClock>>
    /\ UNCHANGED notRaceVars

\* enc.Encode: the next piece of the encoding is written through f.
RaceWrite(p) ==
    /\ procs[p].pc = "created"
    /\ LET i == procs[p].off + 1 IN
       /\ inodes' = [inodes EXCEPT ![procs[p].f] = WriteAt(@, i, Encode(DocOf(p))[i])]
       /\ procs' = [procs EXCEPT
             ![p].off = i,
             ![p].pc = IF i = Len(Encode(DocOf(p))) THEN "encoded" ELSE "created"]
    /\ UNCHANGED <<raceKind, names, raceClock>>
    /\ UNCHANGED notRaceVars

\* enc.Encode or f.Close() fails: os.Remove(tmp), and the error is returned.
RaceFail(p) ==
    /\ procs[p].pc \in {"created", "encoded"}
    /\ names' = Unlink(procs[p].tmp)
    /\ RaceReturn(p, IF procs[p].pc = "created" THEN EncodeErr ELSE CloseErr)
    /\ UNCHANGED <<raceKind, inodes, raceClock>>
    /\ UNCHANGED notRaceVars

\* f.Close() succeeds.
RaceClose(p) ==
    /\ procs[p].pc = "encoded"
    /\ procs' = [procs EXCEPT ![p].pc = "closed"]
    /\ UNCHANGED <<raceKind, names, inodes, raceClock>>
    /\ UNCHANGED notRaceVars

\* return os.Rename(tmp, Path): the file named tmp becomes the destination;
\* the call fails when no file has that name any more, and may fail anyway.
RaceRename(p) ==
    /\ procs[p].pc = "closed"
    /\ \/ /\ procs[p].tmp \in DOMAIN names
          /\ names' = [x \in ((DOMAIN names) \ {procs[p].tmp}) \cup {ResultPath} |->
                          IF x = ResultPath THEN names[procs[p].tmp] ELSE names[x]]
          /\ RaceReturn(p, NoErr)
       \/ /\ RaceReturn(p, RenameErr)
          /\ UNCHANGED names
    /\ UNCHANGED <<raceKind, inodes, raceClock>>
    /\ UNCHANGED notRaceVars

\* Both calls are about to begin; the destination is absent, or holds what
\* an earlier call saved.
InitRace ==
    /\ NoSession
    /\ NoTest
    /\ NoParse
    /\ NoFiles
    /\ NoMulti
    /\ NoHarness
    /\ raceKind \in {"Save", "WriteJSON"}
    /\ \/ names = <<>> /\ inodes = <<>>
       \/ /\ names = [x \in {ResultPath} |-> 1]
          /\ inodes = <<Encode(OldDoc)>>
    /\ procs = [p \in Procs |-> [pc |-> "called", tmp |-> "", f |-> 0, off |-> 0,
                                 ret |-> "running"]]
    /\ raceClock = 0

NextRace ==
    \/ \E p \in Procs : RaceName(p)
    \/ \E p \in Procs : RaceCreate(p)
    \/ \E p \in Procs : RaceWrite(p)
    \/ \E p \in Procs : RaceFail(p)
    \/ \E p \in Procs : RaceClose(p)
    \/ \E p \in Procs : RaceRename(p)

SpecRace == InitRace /\ [][NextRace]_vars

\* ===================================================================
\* The Ginkgo hooks of harnessv2.Attach
\* ===================================================================
\* The fetcher NewMetricsHarness builds, when WaitCurlMetricsDone returns:
\* RunCurlMetricsOnce or CurlMetricsLogs fails and the error is returned with
\* a nil map, or the logs are parsed, and the parser never returns nil.
HarnessFetch == {f \in CommonFetchOutcomes : f.err = NoErr => ~f.m.nil}

\* The injected WaitCurlMetricsDone is Eventually(...).Should(Succeed()): when
\* the pod does not finish in time the assertion fails the running node, and
\* the fetcher, and the Start or End that called it, never return.
WaitFails ==
    /\ testFailed' = TRUE
    /\ UNCHANGED <<logged, sessionVars>>

\* BeforeEach: nothing when deps.Enabled is false; else inst.Start, whose
\* error is logged.
BeforeEach ==
    /\ hook = "registered"
    /\ hook' = "BeforeEach"
    /\ IF ~depsEnabled
       THEN UNCHANGED <<testFailed, logged, sessionVars>>
       ELSE \/ /\ StartCall(HarnessFetch)
               /\ logged' = (IF lastErr' # NoErr
                             THEN Append(logged, "SLO(v2): Start failed (skip)")
                             ELSE logged)
               /\ UNCHANGED testFailed
            \/ WaitFails
    /\ UNCHANGED depsEnabled
    /\ UNCHANGED notHarnessVars

\* AfterEach, which runs whether or not BeforeEach failed: nothing when
\* disabled; else inst.End, whose error is logged.
AfterEach ==
    /\ hook = "BeforeEach"
    /\ hook' = "AfterEach"
    /\ IF ~depsEnabled
       THEN UNCHANGED <<testFailed, logged, sessionVars>>
       ELSE \/ /\ EndCall(HarnessFetch)
               /\ logged' = (IF lastErr' # NoErr
                             THEN Append(logged, "SLO(v2): End failed (skip)")
                             ELSE logged)
               /\ UNCHANGED testFailed
            \/ ~StartMissing(startSnap) /\ WaitFails
    /\ UNCHANGED depsEnabled
    /\ UNCHANGED notHarnessVars

\* One test; the session is the one NewMetricsHarness builds: the default
\* definition, the skip policy, a writer when ArtifactsDir is set.
InitHarness ==
    /\ New(CommonMetricDefs)
    /\ policy.OnGlobalInParallel = "skip"
    /\ NoTest /\ NoParse /\ NoFiles /\ NoMulti /\ NoRace
    /\ depsEnabled \in BOOLEAN
    /\ hook = "registered"
    /\ testFailed = FALSE
    /\ logged = <<>>

NextHarness == BeforeEach \/ AfterEach

SpecHarness == InitHarness /\ [][NextHarness]_vars

\* ===================================================================
\* Properties
\* ===================================================================
\* The last call was an End that built a SessionResult. In such a state
\* startSnap is the start snapshot the result was computed from (End does
\* not assign it) and endSnap is the snapshot End fetched.
EndBuilt == lastOp = "End" /\ res.built

DefIdx == 1..Len(defs)
InStart(n) == n \in DOMAIN startSnap.kv
InEnd(n) == n \in DOMAIN endSnap.kv
InBoth(n) == InStart(n) /\ InEnd(n)
Measured(n) == n \in DOMAIN res.Measurements
IsSkipped(n) == n \in DOMAIN res.Skipped
Count(q, x) == Cardinality({k \in 1..Len(q) : q[k] = x})
Range(q) == {q[k] : k \in 1..Len(q)}

\* The only arm of the policy switch that ends the iteration of a definition.
PolicyEnds(d) ==
    policy.AllowParallel /\ d.Scope = "global" /\ policy.OnGlobalInParallel = "skip"

\* C1: every definition present in both snapshots whose processing the
\* parallel policy does not end is measured, and its measurement is exactly
\* the end value minus the start value.
C1_DeltaExact ==
    EndBuilt =>
        \A i \in DefIdx :
            LET d == defs[i] IN
            (InBoth(d.Name) /\ ~PolicyEnds(d)) =>
                /\ Measured(d.Name)
                /\ res.Measurements[d.Name] = endSnap.kv[d.Name] - startSnap.kv[d.Name]

\* C1 witness: a definition was measured with a non-zero delta.
C1_Witness ==
    /\ EndBuilt
    /\ \E i \in DefIdx :
          /\ InBoth(defs[i].Name) /\ ~PolicyEnds(defs[i])
          /\ endSnap.kv[defs[i].Name] # startSnap.kv[defs[i].Name]

\* C2: as long as no Start has returned nil, every End returns the
\* End-before-Start error, no End has invoked the fetcher, and nothing has
\* been handed to the writer.
C2_EndBeforeStart ==
    okStarts = 0 =>
        /\ "End" \notin Range(fetches)
        /\ saved = <<>>
        /\ lastOp = "End" =>
              /\ lastErr = ErrEndBeforeStart
              /\ fetched = NoFetch
              /\ ~res.built

\* C2 witness: End was called after a Start that failed at the fetcher.
C2_Witness ==
    /\ okStarts = 0
    /\ lastOp = "End"
    /\ fetches = <<"Start">>

\* C3: a definition whose name is absent from the start snapshot or from the
\* end snapshot is never measured and is recorded as skipped with the reason
\* "metric missing", whatever its scope and whatever the policy.
C3_MissingSkipped ==
    EndBuilt =>
        \A i \in DefIdx :
            LET d == defs[i] IN
            ~InBoth(d.Name) =>
                /\ ~Measured(d.Name)
                /\ IsSkipped(d.Name)
                /\ res.Skipped[d.Name] = "metric missing"

\* C3 witness: a global definition under the skip policy is present in one
\* snapshot only.
C3_Witness ==
    /\ EndBuilt
    /\ policy.AllowParallel /\ policy.OnGlobalInParallel = "skip"
    /\ \E i \in DefIdx :
          /\ defs[i].Scope = "global"
          /\ InStart(defs[i].Name) # InEnd(defs[i].Name)

\* ------------------------------------------------ the policy table (C4..C8)
WarnMsg(n) == "global metric used in parallel mode: " \o n
FailMsg(n) == "policy fail: global metric in parallel mode: " \o n
UnknownMsg(p) == "unknown OnGlobalInParallel policy; proceeding: " \o p
SkipReason == "global metric in parallel mode"

DeltaOf(n) == endSnap.kv[n] - startSnap.kv[n]

\* The global definitions present in both snapshots, and those among them
\* that carry the name n.
GlobalPresent == {i \in DefIdx : defs[i].Scope = "global" /\ InBoth(defs[i].Name)}
GlobalPresentNamed(n) == {i \in GlobalPresent : defs[i].Name = n}

ParallelWith(p) == EndBuilt /\ policy.AllowParallel /\ policy.OnGlobalInParallel = p
ParallelUnknown ==
    EndBuilt /\ policy.AllowParallel
             /\ policy.OnGlobalInParallel \notin {"skip", "warn", "fail"}

\* Some definition declares the name n with a scope other than global.
AlsoNonGlobal(n) == \E j \in DefIdx : defs[j].Name = n /\ defs[j].Scope # "global"

\* C4 (as claimed): under allowParallel and skip, every global definition
\* present in both snapshots is absent from measurements, is in skipped with
\* the reason "global metric in parallel mode", and adds no warning and no
\* error.
C4_SkipNotMeasured ==
    ParallelWith("skip") =>
        /\ \A i \in GlobalPresent :
              /\ ~Measured(defs[i].Name)
              /\ IsSkipped(defs[i].Name)
              /\ res.Skipped[defs[i].Name] = SkipReason
        /\ res.Warnings = <<>>
        /\ res.Errors = <<>>

\* C4 (amended): under allowParallel and skip, every global definition
\* present in both snapshots is in skipped with the reason "global metric in
\* parallel mode" and adds no warning and no error; its name is absent from
\* measurements unless the definition list declares the same name with a
\* non-global scope as well, and then the name is measured with end - start.
C4_SkipRecorded ==
    ParallelWith("skip") =>
        /\ \A i \in GlobalPresent :
              LET n == defs[i].Name IN
              /\ IsSkipped(n) /\ res.Skipped[n] = SkipReason
              /\ Measured(n) <=> AlsoNonGlobal(n)
              /\ Measured(n) => res.Measurements[n] = DeltaOf(n)
        /\ res.Warnings = <<>>
        /\ res.Errors = <<>>

\* C4 witness: a global definition present in both snapshots, whose name no
\* other scope declares, was evaluated under skip.
C4_Witness ==
    /\ ParallelWith("skip")
    /\ \E i \in GlobalPresent : ~AlsoNonGlobal(defs[i].Name)

\* C5: under allowParallel and warn, every global definition present in both
\* snapshots is measured with end - start, appends exactly one warning (so
\* the warnings are one per such definition), and adds nothing to skipped or
\* errors.
C5_WarnMeasured ==
    ParallelWith("warn") =>
        /\ \A i \in GlobalPresent :
              LET n == defs[i].Name IN
              /\ Measured(n) /\ res.Measurements[n] = DeltaOf(n)
              /\ ~IsSkipped(n)
              /\ Count(res.Warnings, WarnMsg(n)) = Cardinality(GlobalPresentNamed(n))
        /\ Len(res.Warnings) = Cardinality(GlobalPresent)
        /\ res.Errors = <<>>

\* C5 witness: a global definition present in both snapshots was evaluated
\* under warn.
C5_Witness == ParallelWith("warn") /\ GlobalPresent # {}

DeclaredNames == {defs[i].Name : i \in DefIdx}
PlainMeasurements == [n \in {m \in DeclaredNames : InBoth(m)} |-> DeltaOf(n)]
PlainSkipped == [n \in {m \in DeclaredNames : ~InBoth(m)} |-> "metric missing"]

\* C8: with allowParallel false the result is the same for every value of
\* onGlobalInParallel: global definitions are evaluated like the others and
\* no entry of skipped, warnings or errors comes from the policy. With
\* allowParallel true the policy leaves every non-global definition alone:
\* such a definition is measured or skipped as missing, and policy entries
\* arise from global definitions only.
C8_PolicyInert ==
    /\ (EndBuilt /\ ~policy.AllowParallel) =>
          /\ res.Measurements = PlainMeasurements
          /\ res.Skipped = PlainSkipped
          /\ res.Warnings = <<>>
          /\ res.Errors = <<>>
          /\ \A p \in PolicyStrings :
                res = EvalDefs(NewResult(meta, labels, startAt, res.EndTimeUnixMs),
                               defs, startSnap.kv, endSnap.kv,
                               [AllowParallel |-> FALSE, OnGlobalInParallel |-> p])
    /\ (EndBuilt /\ policy.AllowParallel) =>
          /\ \A i \in DefIdx :
                LET n == defs[i].Name IN
                defs[i].Scope # "global" =>
                    IF InBoth(n)
                    THEN Measured(n) /\ res.Measurements[n] = DeltaOf(n)
                    ELSE ~Measured(n) /\ IsSkipped(n) /\ res.Skipped[n] = "metric missing"
          /\ Len(res.Warnings) + Len(res.Errors) <= Cardinality(GlobalPresent)
          /\ \A n \in DOMAIN res.Skipped :
                res.Skipped[n] # "metric missing" => GlobalPresentNamed(n) # {}

\* C8 witness: with allowParallel false, a global definition present in both
\* snapshots was evaluated although the policy value is skip.
C8_Witness ==
    /\ EndBuilt /\ ~policy.AllowParallel
    /\ policy.OnGlobalInParallel = "skip"
    /\ GlobalPresent # {}

\* ------------------------------------------------ Start (C9, C10)
\* The step is a Start call.
StartStep == lastOp' = "Start" /\ calls' = calls + 1

\* C9: a Start whose fetch fails returns the fetcher's error and stores
\* nothing: start snapshot, start time and the count of successful Starts
\* stay as they were. On a session no Start of which has succeeded, a
\* following End still fails with the End-before-Start error.
C9_FailedStartStoresNothing ==
    /\ [][(StartStep /\ fetched'.err # NoErr) =>
             /\ lastErr' = fetched'.err
             /\ startSnap' = startSnap
             /\ startAt' = startAt
             /\ okStarts' = okStarts]_vars
    /\ []((okStarts = 0) => (startSnap = NilMetricMap /\ startAt = ZeroTime))
    /\ []((okStarts = 0 /\ lastOp = "End") => lastErr = ErrEndBeforeStart)

\* C9 witness: End was rejected on a session whose only Start failed at the
\* fetcher.
C9_Witness ==
    /\ lastOp = "End" /\ lastErr = ErrEndBeforeStart
    /\ fetches = <<"Start">> /\ okStarts = 0
    /\ startAt = ZeroTime

EndStep == lastOp' = "End" /\ calls' = calls + 1

\* The last call was an End that got past the Start guard and whose fetch
\* failed / succeeded.
EndFetchErr == lastOp = "End" /\ fetched.invoked /\ fetched.err # "nil"
EndFetchOk == lastOp = "End" /\ fetched.invoked /\ fetched.err = "nil"

\* C11: an End whose fetch fails returns the fetcher's error, builds no
\* SessionResult and does not invoke the writer: nothing is appended to what
\* the writer was handed, and no end time is read.
C11_EndFetchFailure ==
    /\ [](EndFetchErr =>
             /\ lastErr = fetched.err
             /\ ~res.built
             /\ saveErr = NoSave)
    /\ [][(EndStep /\ fetched'.invoked /\ fetched'.err # "nil") =>
             /\ saved' = saved
             /\ clock' = clock]_vars

\* C11 witness: after a Start that returned nil, End failed at the fetcher on
\* a session that has a writer.
C11_Witness ==
    /\ EndFetchErr /\ okStarts = 1 /\ writerSet
    /\ fetches = <<"Start", "End">>
    /\ lastErr = FetchErr /\ saved = <<>>

C16_NoWriterNoError ==
    /\ ~writerSet => (saved = <<>> /\ saveErr = NoSave)
    /\ (EndFetchOk /\ ~writerSet) => (lastErr = "nil" /\ res.built)

\* C16 witness: a session without a writer was started and ended, both
\* fetches succeeding.
C16_Witness ==
    /\ EndFetchOk /\ ~writerSet
    /\ okStarts = 1 /\ okEnds = 1
    /\ lastErr = NoErr

\* The definitions absent from a snapshot.
MissingDefs == {i \in DefIdx : ~InBoth(defs[i].Name)}

\* C17: whenever End's fetch succeeds and Save succeeds or is not invoked,
\* End returns nil and has built a result, for every definition list, pair of
\* snapshots and policy. Missing metrics and policy decisions show in the
\* result only: a missing definition in skipped, a global definition under
\* skip in skipped, under fail in errors, under warn or an unknown value in
\* warnings. The only error such an End can return is Save's.
C17_QualityNotControl ==
    /\ (EndFetchOk /\ saveErr \in {NoSave, "nil"}) => (lastErr = "nil" /\ res.built)
    /\ EndFetchOk => lastErr \in {"nil", saveErr}
    /\ EndBuilt =>
          /\ \A i \in MissingDefs : IsSkipped(defs[i].Name)
          /\ (policy.AllowParallel /\ GlobalPresent # {}) =>
                CASE policy.OnGlobalInParallel = "skip" ->
                        \A i \in GlobalPresent : IsSkipped(defs[i].Name)
                  [] policy.OnGlobalInParallel = "fail" -> res.Errors # <<>>
                  [] OTHER -> res.Warnings # <<>>

\* C17 witness: End returned nil after Save succeeded on a result that
\* carries a policy error and a missing metric.
C17_Witness ==
    /\ ParallelWith("fail") /\ writerSet
    /\ saveErr = NoErr /\ lastErr = NoErr
    /\ res.Errors # <<>>
    /\ MissingDefs # {}

\* ------------------------------------------------ negative deltas (C18)
\* The definitions measured with an end value below the start value.
NegativeDefs ==
    {i \in DefIdx : /\ InBoth(defs[i].Name)
                    /\ ~PolicyEnds(defs[i])
                    /\ endSnap.kv[defs[i].Name] < startSnap.kv[defs[i].Name]}

\* The name n is declared by a global definition the skip arm applies to.
SkipArmTakes(n) ==
    /\ policy.AllowParallel /\ policy.OnGlobalInParallel = "skip"
    /\ \E j \in DefIdx : defs[j].Name = n /\ defs[j].Scope = "global"

\* C18: a definition whose end value is below its start value is measured
\* all the same, with the negative value end - start. The sign leaves no
\* trace elsewhere: the name is in skipped only if the skip arm applies to
\* it, every warning and every error is one of the policy arms' messages,
\* and without allowParallel there is none at all.
C18_NegativeDeltaKept ==
    EndBuilt =>
        /\ \A i \in NegativeDefs :
              LET n == defs[i].Name IN
              /\ Measured(n)
              /\ res.Measurements[n] = endSnap.kv[n] - startSnap.kv[n]
              /\ res.Measurements[n] < 0
              /\ IsSkipped(n) => SkipArmTakes(n)
        /\ \A n \in DOMAIN res.Skipped :
              res.Skipped[n] \in {"metric missing", SkipReason}
        /\ \A k \in 1..Len(res.Warnings) :
              \/ res.Warnings[k] = UnknownMsg(policy.OnGlobalInParallel)
              \/ \E j \in GlobalPresent : res.Warnings[k] = WarnMsg(defs[j].Name)
        /\ \A k \in 1..Len(res.Errors) :
              \E j \in GlobalPresent : res.Errors[k] = FailMsg(defs[j].Name)
        /\ ~policy.AllowParallel => (res.Warnings = <<>> /\ res.Errors = <<>>)

\* C18 witness: a counter that went down between the snapshots was
\* evaluated with no policy in the way, next to a metric that went up.
C18_Witness ==
    /\ EndBuilt /\ ~policy.AllowParallel
    /\ NegativeDefs # {}
    /\ \E i \in DefIdx :
          /\ InBoth(defs[i].Name)
          /\ endSnap.kv[defs[i].Name] > startSnap.kv[defs[i].Name]

\* ------------------------------------ the labelled outcome (C19, C20)
\* The last call was an End of the helper, and the helper is switched on.
InstEnded == testOp = "Instrument.End" /\ inst.enabled
ADeltaEnded == testOp = "EndFromMetricsText" /\ adelta.enabled
Written == testOut.summary.written

\* The label the outcome rule gives a test with verdict tp whose summary
\* carries the convergence time conv and the reconcile delta delta.
LabelRule(tp, conv, delta) ==
    CASE ~tp -> "fail"
      [] tp /\ (conv.nil \/ delta.nil) -> "skip"
      [] OTHER -> "success"

\* The fetcher failed, or its text did not yield the counter.
EndScrapeFailed ==
    /\ testIn.fetch.invoked
    /\ \/ testIn.fetch.err # "nil"
       \/ ~testIn.fetch.text.valid
       \/ ReconcileTotal \notin DOMAIN testIn.fetch.text.families

\* C19: the label an End leaves is fail when testPassed is false, else skip
\* when the convergence time or the reconcile delta is nil, else success;
\* it is fail exactly when the test failed. The summary handed to the writer
\* carries that label and those two values. The delta is nil whenever the
\* scrape failed or no start value is stored, the convergence time whenever
\* no start time is stored.
C19_LabelledOutcome ==
    /\ InstEnded =>
          /\ testOut.result = LabelRule(testIn.testPassed, testOut.conv, testOut.delta)
          /\ inst.labels.Result = testOut.result
          /\ (testOut.result = "fail") <=> ~testIn.testPassed
          /\ (EndScrapeFailed \/ ~inst.hasRecStart) => testOut.delta.nil
          /\ testOut.conv.nil <=> ~inst.hasStart
          /\ Written <=> inst.writer
          /\ Written =>
                testOut.summary.Labels.Result = testOut.result
    /\ (InstEnded \/ ADeltaEnded) /\ Written =>
          LET s == testOut.summary IN
          /\ s.Labels.Result =
                LabelRule(testIn.testPassed, s.Metrics.E2EConvergenceTimeSeconds,
                          s.Metrics.ReconcileTotalDelta)
          /\ (s.Labels.Result = "fail") <=> ~testIn.testPassed
          /\ s.Metrics.E2EConvergenceTimeSeconds = testOut.conv
          /\ s.Metrics.ReconcileTotalDelta = testOut.delta
    /\ ADeltaEnded =>
          /\ Written <=> adelta.writer
          /\ Written => adelta.labels.Result = testOut.summary.Labels.Result
          /\ (testIn.startSkipReason # "" \/ ~adelta.hasStart \/ ~testIn.text.valid
                \/ ReconcileTotal \notin DOMAIN testIn.text.families)
                => testOut.delta.nil
          /\ testOut.conv.nil <=> (adelta.startAt = ZeroTime)

\* C19 witness: the fetcher failed in the End of a failing test, and the
\* summary written is labelled fail.
C19_Witness ==
    /\ InstEnded /\ ~testIn.testPassed
    /\ testIn.fetch.invoked /\ testIn.fetch.err = TextFetchErr
    /\ Written /\ testOut.summary.Labels.Result = "fail"
    /\ testOut.summary.Metrics.ReconcileTotalDelta = NilPtr

\* The counter read at End is below the value stored at Start.
NegativeInstDelta ==
    /\ InstEnded
    /\ testIn.fetch.invoked /\ testIn.fetch.err = "nil"
    /\ testIn.fetch.text.valid
    /\ ReconcileTotal \in DOMAIN testIn.fetch.text.families
    /\ testIn.fetch.text.families[ReconcileTotal] < inst.reconcileStart
NegativeADelta ==
    /\ ADeltaEnded /\ testIn.startSkipReason = "" /\ adelta.hasStart
    /\ testIn.text.valid
    /\ ReconcileTotal \in DOMAIN testIn.text.families
    /\ testIn.text.families[ReconcileTotal] < adelta.startV
NegativeInline ==
    /\ testOp = "MetricsTestSummary"
    /\ testIn.startOK /\ testIn.endOK /\ testIn.endV < testIn.startV

\* C20: when the counter read at End is below the start value, the delta is
\* nil; the label is skip for a passing test and fail for a failing one, and
\* the summary written carries that label and no reconcile delta.
C20_NegativeDeltaSkips ==
    /\ (NegativeInstDelta \/ NegativeADelta \/ NegativeInline) =>
          /\ testOut.delta.nil
          /\ Written =>
                /\ testOut.summary.Metrics.ReconcileTotalDelta.nil
                /\ testOut.summary.Labels.Result =
                      IF testIn.testPassed THEN "skip" ELSE "fail"
    /\ NegativeInstDelta =>
          inst.labels.Result = IF testIn.testPassed THEN "skip" ELSE "fail"
    /\ NegativeInline => Written

\* C20 witness: a passing test whose start time and start value are stored
\* read a smaller counter at End, and its summary was written.
C20_Witness ==
    /\ NegativeInstDelta /\ testIn.testPassed
    /\ inst.hasStart /\ ~testOut.conv.nil
    /\ Written /\ testOut.summary.Labels.Result = "skip"

\* ------------------------------------------------ the parser (C21..C23)
LineIdx == 1..Len(rawLines)
BaseNames == {"controller_runtime_reconcile_total", "workqueue_depth"}

\* The number a value field denotes.
NumberOf(tok) == CHOOSE v \in 0..MaxVal : ToString(v) = tok
IsNumber(tok) == \E v \in 0..MaxVal : ToString(v) = tok

\* Line k is a metric line: not blank, not a comment, at least two fields.
MetricLineAt(k) ==
    LET f == rawLines[k].fields IN
    /\ ~rawLines[k].long
    /\ Len(f) >= 2
    /\ f[1] # "#"

\* Line k is a metric line of a labelled variant of the base name b, with a
\* second field that is a number.
LabelledLineOf(k, b) ==
    /\ MetricLineAt(k)
    /\ \E l \in {"a", "b"} : rawLines[k].fields[1] = b \o "{controller=\"" \o l \o "\"}"
    /\ IsNumber(rawLines[k].fields[2])

RECURSIVE SumOfLines(_)
SumOfLines(S) ==
    IF S = {} THEN 0
    ELSE LET k == CHOOSE x \in S : TRUE
         IN  NumberOf(rawLines[k].fields[2]) + SumOfLines(S \ {k})

\* C21 (as claimed): for every base name with labelled lines in the input,
\* each labelled series is stored under its own key, with the value of its
\* last line, and the base name is stored with the sum of the values of all
\* the labelled lines of that base name.
C21_BaseIsLabelledSum ==
    \A b \in BaseNames :
        LET L == {k \in LineIdx : LabelledLineOf(k, b)} IN
        L # {} =>
            /\ \A k \in L :
                  LET key == rawLines[k].fields[1] IN
                  /\ key \in DOMAIN out
                  /\ (\A j \in L : j > k => rawLines[j].fields[1] # key)
                        => out[key] = NumberOf(rawLines[k].fields[2])
            /\ b \in DOMAIN out
            /\ out[b] = SumOfLines(L)

\* The step scans one more line.
ScanStep == Len(rawLines') = Len(rawLines) + 1
\* The fields of the line that step scans.
ScannedFields == rawLines'[Len(rawLines')].fields
\* That line is a metric line: not blank, not a comment, two fields or more.
ScannedMetricLine ==
    /\ Len(ScannedFields) >= 2
    /\ ScannedFields[1] # "#"

\* What storing the value x for the series s does to out: the entry of s is
\* x, and when s is labelled, x is added to the entry of its base name.
StoredAs(s, x) ==
    /\ s \in DOMAIN out'
    /\ out'[s] = x
    /\ \A b \in BaseNames :
          (\E l \in {"a", "b"} : s = b \o "{controller=\"" \o l \o "\"}") =>
              /\ b \in DOMAIN out'
              /\ out'[b] = (IF b \in DOMAIN out THEN out[b] ELSE 0) + x
    /\ \A n \in DOMAIN out' :
          (n # s /\ ~(\E l \in {"a", "b"} : s = n \o "{controller=\"" \o l \o "\"}"))
              => (n \in DOMAIN out /\ out'[n] = out[n])

\* C22 (as claimed): the value of a metric line is its last field: a line that
\* changes the mapping stores the number of its last field under the series
\* that precedes it, and a line whose last field is no number changes nothing.
C22_ValueIsLastField ==
    [][(ScanStep /\ ScannedMetricLine) =>
          LET last == ScannedFields[Len(ScannedFields)] IN
          IF IsNumber(last)
          THEN out' # out => StoredAs(ScannedFields[1], NumberOf(last))
          ELSE out' = out]_vars

\* C22 (amended): the value of a metric line is its second field and its
\* series identity the first: a line that changes the mapping stores the
\* number of its second field under its first field, a line whose second
\* field is no number changes nothing, and later fields play no part.
C22_ValueIsSecondField ==
    [][(ScanStep /\ ScannedMetricLine) =>
          LET second == ScannedFields[2] IN
          IF IsNumber(second)
          THEN out' # out => StoredAs(ScannedFields[1], NumberOf(second))
          ELSE out' = out]_vars

\* C22 witness: a line of three fields was stored with its second field, the
\* third not being a number.
C22_Witness ==
    /\ rawLines # <<>> /\ ~scanStopped
    /\ LET f == rawLines[Len(rawLines)].fields IN
       /\ Len(f) = 3 /\ f[1] = "controller_runtime_reconcile_total"
       /\ f[2] = "1" /\ f[3] = "x"
       /\ "controller_runtime_reconcile_total" \in DOMAIN out
       /\ out["controller_runtime_reconcile_total"] = 1

\* A line the parser is to skip: blank, a comment, fewer than two fields, or
\* a value that is no number.
SkippedLine(f) ==
    \/ f = <<>>
    \/ f[1] = "#"
    \/ Len(f) < 2
    \/ ~IsNumber(f[2])

\* C23 (as claimed): skipped lines contribute nothing, every other line is
\* parsed whatever preceded it, and an input of skipped lines only gives the
\* empty mapping.  (Nothing is asked of an over-long line itself.)
C23_OtherLinesParsed ==
    /\ []((\A k \in LineIdx : SkippedLine(rawLines[k].fields)) => out = EmptyKV)
    /\ [][ScanStep =>
            IF SkippedLine(ScannedFields)
            THEN out' = out
            ELSE rawLines'[Len(rawLines')].long
                 \/ StoredAs(ScannedFields[1], NumberOf(ScannedFields[2]))]_vars

\* The writer of the call in progress, or of the last call, has no path.
NoPath == saveW.isNil \/ saveW.Path = ""
\* The destination is the same in the file systems a and b: absent in
\* both, or of equal content.
SameDest(a, b) ==
    /\ (ResultPath \in DOMAIN a) <=> (ResultPath \in DOMAIN b)
    /\ ResultPath \in DOMAIN a => a[ResultPath] = b[ResultPath]
\* The last call has returned e.
Returned(e) == savePc = "idle" /\ saveRet = e

\* C24: a call on a nil writer or a writer with an empty path returns at
\* once with success, and changes no file and makes no directory.
C24_UnsetPathNoEffect ==
    [][(saveCalls' = saveCalls + 1 /\ (saveW'.isNil \/ saveW'.Path = "")) =>
          /\ savePc' = "idle"
          /\ saveRet' = "nil"
          /\ files' = files
          /\ dirMade' = dirMade]_vars

\* C24 witness: a second call, on a writer with an empty path, has returned
\* success and the destination is the only file on disk.
C24_Witness ==
    /\ saveCalls = 2
    /\ ~saveW.isNil /\ saveW.Path = ""
    /\ Returned("nil")
    /\ DOMAIN files = {ResultPath}

\* C25 (as claimed): when a call has returned the error of a failed
\* encoding, its temp file is not on disk and the destination is as it was
\* when the call began.
C25_EncodeFailureLeavesNothing ==
    Returned("encode failed") =>
        /\ saveTmp \notin DOMAIN files
        /\ SameDest(files, filesAtCall)

\* C25 (amended): when a call has returned the error of a failed encoding,
\* its temp file is not on disk unless the removal itself failed, and the
\* destination is as it was when the call began.
C25_EncodeFailureCleansUp ==
    Returned("encode failed") =>
        /\ removable => saveTmp \notin DOMAIN files
        /\ SameDest(files, filesAtCall)

\* C25 witness: the encoding failed after a piece was written over an
\* existing destination, and the temp file is gone.
C25_Witness ==
    /\ Returned("encode failed")
    /\ removable
    /\ saveTmp \notin DOMAIN files
    /\ ResultPath \in DOMAIN files
    /\ files[ResultPath] = <<"{", "r0", "}\n">>

\* The complete JSON documents: what a call is asked to save, and what the
\* destination held before.
CompleteDocs == {<<"{", d, "}\n">> : d \in {"r0", "r1", "r2"}}

\* C26: the destination, when it exists, always holds a complete document,
\* also while a call is in progress and after the process died in one; and
\* the only change a step makes to it is to install the complete document
\* of the call in progress.
C26_AtomicPublication ==
    /\ [](ResultPath \in DOMAIN files => files[ResultPath] \in CompleteDocs)
    /\ [][~SameDest(files, files') =>
            /\ ResultPath \in DOMAIN files'
            /\ files'[ResultPath] = <<"{", saveDoc, "}\n">>]_vars

\* C26 witness: the process died with a partly written temp file on disk,
\* and the destination still holds its previous content.
C26_Witness ==
    /\ Returned("process died")
    /\ saveTmp \in DOMAIN files
    /\ files[saveTmp] = <<"{">>
    /\ ResultPath \in DOMAIN files
    /\ files[ResultPath] = <<"{", "r0", "}\n">>

\* C27 (as claimed): when a call has returned the error of a failed write,
\* close or rename, its temp file is not on disk (a removal that itself
\* fails set aside).
C27_TempRemovedOnFailure ==
    (savePc = "idle" /\ saveRet \in {"encode failed", "close failed", "rename failed"}
        /\ removable)
        => saveTmp \notin DOMAIN files

\* C28: the result End builds carries the instant the last successful Start
\* recorded and the instant End read after its fetch; startAt is written by
\* a successful Start only, with the clock's reading; and as the clock never
\* runs backwards, no result handed to the writer ends before it starts.
C28_WindowOrdered ==
    /\ [](\A k \in 1..Len(saved) :
             saved[k].EndTimeUnixMs >= saved[k].StartTimeUnixMs)
    /\ [][(EndStep /\ res'.built) =>
             /\ res'.StartTimeUnixMs = startAt
             /\ res'.EndTimeUnixMs = clock'
             /\ clock' >= clock
             /\ startAt' = startAt]_vars
    /\ [][startAt' # startAt =>
             /\ StartStep
             /\ lastErr' = "nil"
             /\ startAt' = clock'
             /\ clock' >= clock]_vars

\* C28 witness: a result was handed to the writer whose window is not
\* empty.
C28_Witness ==
    /\ lastOp = "End"
    /\ Len(saved) > 0
    /\ saved[Len(saved)].EndTimeUnixMs > saved[Len(saved)].StartTimeUnixMs
    /\ saved[Len(saved)].StartTimeUnixMs > 0

\* C29 (as claimed): an End that follows a Start which returned nil is not
\* rejected with the End-before-Start error and invokes the fetcher,
\* whatever map that Start was given.
C29_StartedAfterSuccessfulStart ==
    [][(lastOp = "Start" /\ lastErr = "nil" /\ EndStep) =>
          /\ lastErr' # ErrEndBeforeStart
          /\ fetched'.invoked]_vars

\* C30 (as claimed): no name is a key of both measurements and skipped.
C30_MeasuredXorSkipped ==
    EndBuilt => (DOMAIN res.Measurements) \cap (DOMAIN res.Skipped) = {}

\* C30 (amended): a name is a key of both measurements and skipped only
\* when the definition list declares it with the Global scope and with
\* another scope as well.
C30_BothOnlyIfTwoScopes ==
    EndBuilt =>
        \A n \in (DOMAIN res.Measurements) \cap (DOMAIN res.Skipped) :
            \E i, j \in 1..Len(defs) :
                /\ defs[i].Name = n /\ defs[i].Scope = ScopeGlobal
                /\ defs[j].Name = n /\ defs[j].Scope # ScopeGlobal

\* C30 witness: the result has measured one name and skipped another.
C30_Witness ==
    /\ EndBuilt
    /\ DOMAIN res.Measurements # {}
    /\ DOMAIN res.Skipped # {}
    /\ (DOMAIN res.Measurements) \cap (DOMAIN res.Skipped) = {}

\* C31: the keys of measurements and of skipped are names of supplied
\* definitions; a measured name is itself a key of both snapshots and its
\* value is the difference of the values stored under that very key; and a
\* declared name that is not a key of both snapshots is not measured,
\* whatever other keys the snapshots hold.
C31_ExactKeysOnly ==
    EndBuilt =>
        /\ (DOMAIN res.Measurements) \cup (DOMAIN res.Skipped)
              \subseteq {defs[i].Name : i \in 1..Len(defs)}
        /\ \A n \in DOMAIN res.Measurements :
              /\ n \in DOMAIN startSnap.kv /\ n \in DOMAIN endSnap.kv
              /\ res.Measurements[n] = endSnap.kv[n] - startSnap.kv[n]
        /\ \A i \in 1..Len(defs) :
              (defs[i].Name \notin DOMAIN startSnap.kv
                  \/ defs[i].Name \notin DOMAIN endSnap.kv)
                  => defs[i].Name \notin DOMAIN res.Measurements

\* C31 witness: the only declared name is in neither snapshot while another
\* series is in both; the declared name is skipped and the other series is
\* nowhere in the result.
C31_Witness ==
    /\ EndBuilt
    /\ {defs[i].Name : i \in 1..Len(defs)} = {"controller_runtime_reconcile_total"}
    /\ DOMAIN startSnap.kv = {"workqueue_depth"}
    /\ DOMAIN endSnap.kv = {"workqueue_depth"}
    /\ DOMAIN res.Skipped = {"controller_runtime_reconcile_total"}
    /\ DOMAIN res.Measurements = {}

\* C32: whatever End returns, it leaves the start snapshot, the start time,
\* the definitions, the policy, the labels and the metadata as they were,
\* and the end snapshot it works on is the map the fetcher returned.
C32_EndKeepsCapturedState ==
    [][EndStep =>
          /\ startSnap' = startSnap
          /\ startAt' = startAt
          /\ defs' = defs
          /\ policy' = policy
          /\ labels' = labels
          /\ meta' = meta
          /\ (fetched'.invoked /\ fetched'.err = "nil") => endSnap' = fetched'.m]_vars

\* C32 witness: End has returned the writer's error, and the start snapshot
\* is still the non-empty map Start stored, different from the end snapshot.
C32_Witness ==
    /\ lastOp = "End"
    /\ lastErr = SaveErr
    /\ ~startSnap.nil
    /\ startSnap.kv # EmptyKV
    /\ endSnap.kv # startSnap.kv
    /\ startAt > 0

\* C33: an End whose fetch fails leaves the start snapshot and the start
\* time as they were; and the next End, if its fetch succeeds, is not
\* rejected and builds its result from that same start snapshot and start
\* time: each measurement is the fetched value minus the start value.
C33_RetryAfterFetchFailure ==
    /\ [][(EndStep /\ fetched'.invoked /\ fetched'.err # "nil") =>
             /\ startSnap' = startSnap
             /\ startAt' = startAt
             /\ ~res'.built]_vars
    /\ [][(lastOp = "End" /\ fetched.invoked /\ fetched.err # "nil" /\ EndStep) =>
             /\ fetched'.invoked
             /\ lastErr' # ErrEndBeforeStart
             /\ fetched'.err = "nil" =>
                   /\ res'.built
                   /\ res'.StartTimeUnixMs = startAt
                   /\ \A n \in DOMAIN res'.Measurements :
                         res'.Measurements[n] = fetched'.m.kv[n] - startSnap.kv[n]
                   /\ \A n \in DOMAIN startSnap.kv \cap DOMAIN fetched'.m.kv :
                         n \in DOMAIN res'.Measurements \cup DOMAIN res'.Skipped]_vars

\* C33 witness: the End before this one failed at the fetcher, and this one
\* has measured a change against the snapshot of the only Start.
C33_Witness ==
    /\ fetches = <<"Start", "End", "End">>
    /\ okEnds = 1
    /\ lastOp = "End"
    /\ res.built
    /\ \E n \in DOMAIN res.Measurements : res.Measurements[n] > 0

\* The metric every session measures.
SharedCounter == "controller_runtime_reconcile_total"

\* C34: the delta a session's End measures is the counter its own End
\* fetch saw minus the counter its own last successful Start fetch saw; a
\* call on one session leaves every other session as it was, and so does a
\* change of the counter.
C34_SessionsIndependent ==
    /\ [][\A s \in DOMAIN sess :
             (sess'[s].res # sess[s].res
                 /\ SharedCounter \in DOMAIN sess'[s].res.Measurements) =>
                 /\ lastCall' = <<s, "End">>
                 /\ sess[s].seenStart >= 0
                 /\ sess'[s].seenEnd = counter
                 /\ sess'[s].res.Measurements[SharedCounter]
                        = counter - sess[s].seenStart]_vars
    /\ [][multiCalls' = multiCalls + 1 =>
             \A t \in DOMAIN sess : t # lastCall'[1] => sess'[t] = sess[t]]_vars
    /\ [][counter' # counter => sess' = sess]_vars

\* C34 witness: s2 started and ended inside the window of s1, and the two
\* sessions have measured different deltas.
C34_Witness ==
    /\ sess # <<>>
    /\ sess["s1"].res.built /\ sess["s2"].res.built
    /\ sess["s1"].startAt < sess["s2"].startAt
    /\ sess["s2"].res.EndTimeUnixMs < sess["s1"].res.EndTimeUnixMs
    /\ SharedCounter \in DOMAIN sess["s1"].res.Measurements
    /\ SharedCounter \in DOMAIN sess["s2"].res.Measurements
    /\ sess["s1"].res.Measurements[SharedCounter] = 2
    /\ sess["s2"].res.Measurements[SharedCounter] = 1

\* The map ParsePrometheusText returns for the lines ls, started from o.
RECURSIVE ParseAll(_, _)
ParseAll(o, ls) ==
    IF ls = <<>> THEN o ELSE ParseAll(ParseLine(o, Head(ls)), Tail(ls))

\* The orders in which n lines may be written.
Orders(n) == {p \in [1..n -> 1..n] : \A i, j \in 1..n : p[i] = p[j] => i = j}

\* The input has a parsed bare line and a parsed labelled line of base b,
\* and no line the scanner cannot take.
BareAndLabelled(b) ==
    /\ \A k \in LineIdx : ~rawLines[k].long
    /\ \E k \in LineIdx :
          MetricLineAt(k) /\ rawLines[k].fields[1] = b /\ IsNumber(rawLines[k].fields[2])
    /\ \E k \in LineIdx : LabelledLineOf(k, b)

\* C35 (as claimed): when a base name occurs both bare and labelled, the
\* value under the base name is the same for the lines in any other order.
C35_BaseOrderIndependent ==
    \A b \in BaseNames :
        BareAndLabelled(b) =>
            \A p \in Orders(Len(rawLines)) :
                LET o == ParseAll(EmptyKV,
                                  [k \in 1..Len(rawLines) |-> rawLines[p[k]].fields])
                IN  /\ b \in DOMAIN o
                    /\ b \in DOMAIN out
                    /\ o[b] = out[b]

\* Both racing calls have returned success.
BothSucceeded == procs # <<>> /\ \A p \in DOMAIN procs : procs[p].ret = "nil"
\* The destination exists in the racing calls' directory, with content c.
RaceDestIs(c) == ResultPath \in DOMAIN names /\ inodes[names[ResultPath]] = c

\* C36 (as claimed): two Save calls at once never name the same temp file;
\* and when both have returned success the destination holds the complete
\* document of one of them and the directory holds no other file.
C36_SaveRaceSafe ==
    raceKind = "Save" =>
        /\ \A p, q \in DOMAIN procs :
              (p # q /\ procs[p].tmp # "" /\ procs[q].tmp # "")
                  => procs[p].tmp # procs[q].tmp
        /\ BothSucceeded =>
              /\ RaceDestIs(<<"{", "r1", "}\n">>) \/ RaceDestIs(<<"{", "r2", "}\n">>)
              /\ DOMAIN names = {ResultPath}

\* C37 (as claimed): with two WriteJSON / WriteSummary calls at once, the
\* destination, when it exists, always holds a complete document; and a
\* call that returns success leaves it so.
C37_WriteJSONRaceSafe ==
    /\ [](raceKind = "WriteJSON" =>
             (ResultPath \in DOMAIN names =>
                 inodes[names[ResultPath]] \in CompleteDocs))
    /\ [][raceKind = "WriteJSON" =>
             \A p \in DOMAIN procs :
                 (procs[p].ret # "nil" /\ procs'[p].ret = "nil") =>
                     /\ ResultPath \in DOMAIN names'
                     /\ inodes'[names'[ResultPath]] \in CompleteDocs]_vars

\* C38 (as claimed): no hook ever fails the test, whatever fails in Start,
\* in End or inside the fetcher; and when the harness is disabled neither
\* Start nor End nor the fetcher is invoked.
C38_HooksNeverFailTest ==
    /\ ~testFailed
    /\ (hook \in {"BeforeEach", "AfterEach"} /\ ~depsEnabled) =>
           (calls = 0 /\ fetches = <<>> /\ logged = <<>>)

\* ------------------------------------------------------------------ C39
\* The last call was a Start or an End of the unified Instrument.
InstCalled == testOp \in {"Instrument.Start", "Instrument.End"}

\* What C39 says of every call but the number of summaries: a disabled
\* instrument asks neither the fetcher nor the writer; a Start without a
\* fetcher asks nobody, and a Start never writes; an End asks the fetcher only
\* with a start value stored, and whatever the fetcher, the parser or the
\* writer answered, the outcome is labelled by the rule and the summary handed
\* to the writer carries it.
BestEffortCalls ==
    /\ InstCalled /\ ~inst.enabled =>
          /\ ~testIn.fetch.invoked
          /\ ~Written /\ testOut.writeErr = NoWrite
    /\ testOp = "Instrument.Start" =>
          /\ testIn.fetch.invoked => inst.enabled /\ inst.fetcher
          /\ ~Written /\ testOut.writeErr = NoWrite
    /\ InstEnded =>
          /\ testIn.fetch.invoked => inst.hasRecStart /\ inst.fetcher
          /\ testOut.result = FinalResult(testIn.testPassed, testOut.conv, testOut.delta)
          /\ inst.labels.Result = testOut.result
          /\ EndScrapeFailed => testOut.delta.nil
          /\ Written <=> testOut.writeErr \in WriteOutcomes
          /\ Written => testOut.summary.Labels.Result = testOut.result

\* C39 as stated: the unified Instrument never propagates a measurement
\* problem; disabled, Start and End invoke neither the fetcher nor the writer;
\* enabled, End invokes the fetcher only if Start captured a start snapshot,
\* and whatever failed, End hands exactly one summary with the labelled
\* outcome to the writer.
C39_AlwaysOneSummary ==
    /\ BestEffortCalls
    /\ InstEnded => Written

\* C39, amended: as stated, with the summary handed to the writer exactly
\* when a writer is configured; an End without a writer labels the outcome
\* and writes nothing.
C39_BestEffortNeverPropagates ==
    /\ BestEffortCalls
    /\ InstEnded => (Written <=> inst.writer)

\* C39 witness: an enabled End with a start value stored asked the fetcher,
\* which failed, and the writer, which failed too; the passing test is
\* labelled skip in the summary.
C39_Witness ==
    /\ InstEnded /\ testIn.testPassed
    /\ inst.hasRecStart
    /\ testIn.fetch.invoked /\ testIn.fetch.err = TextFetchErr
    /\ Written /\ testOut.writeErr = WriteErr
    /\ testOut.summary.Labels.Result = "skip"
====
